---------------------------- MODULE Spec2Model ----------------------------
(***************************************************************************)
(* A model of editcap (src/editcap.c): the option handlers of real_main,   *)
(* the tests between the option loop and the read loop, the read loop with *)
(* its per-packet pipeline (output rotation, selection, time adjustment,   *)
(* snaplen, chopping, duplicate detection, error mutation, write), and the *)
(* helpers they call.                                                      *)
(*                                                                         *)
(* Numbers.  The C code mixes int and guint32.  Packet numbers, lengths    *)
(* and times of the model stay far from +-2^31, so the int reading of a    *)
(* 32-bit sum or difference is the integer sum or difference; a value that *)
(* C holds in a guint32 is kept as its two's-complement int reading (a     *)
(* negative number stands for that number + 2^32), and unsigned            *)
(* comparisons are made by LtU32 on that reading.  Values of rand() go up  *)
(* to RAND_MAX = 2^31 - 1; they are only compared and divided.             *)
(***************************************************************************)
EXTENDS Integers, Sequences, FiniteSets, TLC

(***************************************************************************)
(* Bounds of the model.                                                    *)
(***************************************************************************)
\* records read in a run of the selection specification
MaxSelPackets == 3
\* largest packet number given in a selection argument
MaxSelNum == 2
\* selection arguments on the command line
MaxSelArgs == 2
\* largest captured length of an input record of the chop specification
MaxCaplen == 3
\* largest magnitude a field of the accumulated chop_t reaches
MaxChop == 2
\* records read in a run of the chop specification
MaxChopPackets == 1
\* bytes of memory modelled before and after the largest packet buffer
MemPad == 2
\* records read in a run of a duplicate-detection specification
MaxDupPackets == 4
\* records read in a run of the time-adjustment specification
MaxTimePackets == 3
\* largest -I argument
MaxIgnored == 2
\* values of rand() after which the generator repeats itself
RandPeriod == 3
\* records read in a run of the error-injection specification
MaxErrPackets == 1
\* records read in a run of the configuration specifications
MaxConfigPackets == 2
\* records read in a run of a split specification
MaxSplitPackets == 4
\* largest -c and -i argument
MaxSplit == 2
\* output files the loop at line 1483 opens for one record before the model
\* stops following it
MaxRotations == 3
\* size of fd_hash[]: 1000000 in the source (editcap.c:111), scaled down so
\* that the ring wraps within MaxDupPackets records
MAX_DUP_DEPTH == 3

(***************************************************************************)
(* Program constants.                                                      *)
(***************************************************************************)
MAX_SELECTIONS == 512
INVALID_OPTION == 1
INVALID_FILE == 2
CANT_EXTRACT_PREFIX == 2
WRITE_ERROR == 2
DUMP_ERROR == 2
DEFAULT_DUP_DEPTH == 5
ONE_BILLION == 1000000000
G_MAXINT == 2147483647
RAND_MAX == 2147483647
ERR_WT_BIT == 5
ERR_WT_BYTE == 5
ERR_WT_ALNUM == 5
ERR_WT_FMT == 2
ERR_WT_AA == 1
ERR_WT_TOTAL == ERR_WT_BIT + ERR_WT_BYTE + ERR_WT_ALNUM + ERR_WT_FMT + ERR_WT_AA
ALNUM_LEN == 62
\* G_MAXUINT (4294967295), as its int reading
G_MAXUINT == -1

REC_TYPE_PACKET == "REC_TYPE_PACKET"
WTAP_ENCAP_ETHERNET == "WTAP_ENCAP_ETHERNET"
WTAP_ENCAP_SLL == "WTAP_ENCAP_SLL"
LINUX_SLL_OFFSETP == 14
VLAN_SIZE == 4
ETHERTYPE_VLAN == 33024
\* What the program may read from memory that holds no byte of the packet:
\* the value is indeterminate, so a pass of the loop body is taken with each
\* of these, one that is no byte of any packet and one that is.
Indeterminate == {0 - 1, 1}

\* a < b for two guint32 values given by their int readings
LtU32(a, b) ==
    IF (a < 0) = (b < 0) THEN a < b ELSE b < 0

\* a <= b for two guint32 values given by their int readings
LeqU32(a, b) == ~LtU32(b, a)

(***************************************************************************)
(* nstime_t and the wsutil helpers the program calls.                      *)
(***************************************************************************)
NsTime(s, n) == [secs |-> s, nsecs |-> n]

NSTIME_INIT_ZERO == NsTime(0, 0)

nstime_unset == NsTime(0, G_MAXINT)

nstime_is_unset(t) == t.secs = 0 /\ t.nsecs = G_MAXINT

\* delta = b - a, both fields of the result having the sign of the difference
nstime_delta(b, a) ==
    IF b.secs = a.secs THEN NsTime(0, b.nsecs - a.nsecs)
    ELSE IF b.secs < a.secs THEN
        IF b.nsecs - a.nsecs > 0
        THEN NsTime(b.secs - a.secs + 1, b.nsecs - a.nsecs - ONE_BILLION)
        ELSE NsTime(b.secs - a.secs, b.nsecs - a.nsecs)
    ELSE
        IF b.nsecs - a.nsecs < 0
        THEN NsTime(b.secs - a.secs - 1, b.nsecs - a.nsecs + ONE_BILLION)
        ELSE NsTime(b.secs - a.secs, b.nsecs - a.nsecs)

\* < 0, 0, > 0 as a is before, equal to, after b
nstime_cmp(a, b) ==
    IF nstime_is_unset(a) THEN (IF nstime_is_unset(b) THEN 0 ELSE -1)
    ELSE IF nstime_is_unset(b) THEN 1
    ELSE IF a.secs = b.secs THEN a.nsecs - b.nsecs
    ELSE a.secs - b.secs

(***************************************************************************)
(* State.                                                                  *)
(***************************************************************************)
VARIABLES
    \* options and globals set while the command line is processed
    keep_em, selectfrm, max_packet_number,
    chop, adjlen, snaplen,
    dup_detect, dup_detect_by_time, dup_window, ignored_bytes,
    relative_time_window,
    \* the run
    pc, ret, read_count, count, written_count, duplicate_count,
    fd_hash, cur_dup_entry,
    \* the records wtap_read has returned and those handed to wtap_dump, what
    \* the last pass of the loop body did, and what the deduplicator was given
    \* and answered
    infile, outfile, last, dedup_log,
    \* -S and -t, and the time stamp of the packet before
    do_strict_time_adjustment, strict_time_adj, time_adj, previous_time,
    \* -E, -o and --seed, the generator srand and rand work on, and a second
    \* run of the same command line on the same input
    err_prob, change_offset, valid_seed, seed, rand_state, twin,
    \* -c and -i, the start of the time block, and the output files opened so
    \* far with the number of packets each was given
    split_packet_count, secs_per_block, block_start, sinks,
    \* -A, -B and --skip-radiotap-header
    check_startstop, starttime, stoptime, skip_radiotap,
    \* the number of selection arguments on the command line, and --novlan
    nselections, rem_vlan,
    \* the operations on the input and output files that have failed
    io_errors

optvars == <<keep_em, selectfrm, max_packet_number, chop, adjlen, snaplen,
             dup_detect, dup_detect_by_time, dup_window, ignored_bytes,
             relative_time_window>>
runvars == <<pc, ret, read_count, count, written_count, duplicate_count,
             fd_hash, cur_dup_entry>>
obsvars == <<infile, outfile, last, dedup_log>>
timeopts == <<do_strict_time_adjustment, strict_time_adj, time_adj>>
timerun == <<previous_time>>
erropts == <<err_prob, change_offset, valid_seed, seed>>
errrun == <<rand_state, twin>>
splitopts == <<split_packet_count, secs_per_block>>
splitrun == <<block_start, sinks>>
filteropts == <<check_startstop, starttime, stoptime, skip_radiotap>>
moreopts == <<timeopts, erropts, splitopts, filteropts>>
cmdline == <<nselections, rem_vlan>>
iorun == <<io_errors>>
morerun == <<timerun, errrun, splitrun, cmdline, iorun>>
vars == <<optvars, runvars, obsvars, moreopts, morerun>>

NoChop == [len_begin |-> 0, off_begin_pos |-> 0, off_begin_neg |-> 0,
           len_end |-> 0, off_end_pos |-> 0, off_end_neg |-> 0]

ZeroDigest == <<"zero">>

FdHashZero == [digest |-> ZeroDigest, len |-> 0, frame_time |-> NSTIME_INIT_ZERO]

NoLast == [recno |-> 0]

\* struct time_adjustment
TimeAdjustment(tv, neg) == [tv |-> tv, is_negative |-> neg]

NoTimeAdjustment == TimeAdjustment(NSTIME_INIT_ZERO, 0)

\* the generator before srand is called
Unseeded == [seeded |-> FALSE, seed |-> 0, stream |-> <<>>, consumed |-> 0]

\* an error probability
Prob(n, d) == [num |-> n, den |-> d]

\* the second run before it starts
NoTwin == [rand_state |-> Unseeded, outfile |-> <<>>]

Init ==
    /\ keep_em = FALSE
    /\ selectfrm = <<>>
    /\ max_packet_number = 0
    /\ chop = NoChop
    /\ adjlen = FALSE
    /\ snaplen = 0
    /\ dup_detect = FALSE
    /\ dup_detect_by_time = FALSE
    /\ dup_window = DEFAULT_DUP_DEPTH
    /\ ignored_bytes = 0
    /\ relative_time_window = NSTIME_INIT_ZERO
    /\ pc = "options"
    /\ ret = 0
    /\ read_count = 0
    /\ count = 1
    /\ written_count = 0
    /\ duplicate_count = 0
    /\ fd_hash = [i \in 0..(MAX_DUP_DEPTH - 1) |-> FdHashZero]
    /\ cur_dup_entry = 0
    /\ infile = <<>>
    /\ outfile = <<>>
    /\ last = NoLast
    /\ dedup_log = <<>>
    /\ do_strict_time_adjustment = FALSE
    /\ strict_time_adj = NoTimeAdjustment
    /\ time_adj = NoTimeAdjustment
    /\ previous_time = NSTIME_INIT_ZERO
    /\ err_prob = Prob(0 - 1, 1)
    /\ change_offset = 0
    /\ valid_seed = FALSE
    /\ seed = 0
    /\ rand_state = Unseeded
    /\ twin = NoTwin
    /\ split_packet_count = 0
    /\ secs_per_block = 0
    /\ block_start = nstime_unset
    /\ sinks = <<>>
    /\ check_startstop = FALSE
    /\ starttime = 0
    /\ stoptime = 0
    /\ skip_radiotap = FALSE
    /\ nselections = 0
    /\ rem_vlan = FALSE
    /\ io_errors = {}

(***************************************************************************)
(* Packet selection.                                                       *)
(***************************************************************************)
\* A selection argument after the two get_guint32 calls: "first" alone
\* (dash = FALSE) or "first-second".
SelArg(d, f, s) == [dash |-> d, first |-> f, second |-> s]

\* add_selection taking the first number of a range for max_selection
add_selection_by_first(st, sel) ==
    IF Len(st.selectfrm) >= MAX_SELECTIONS
    THEN [st EXCEPT !.ok = FALSE]
    ELSE IF ~sel.dash
    THEN [selectfrm |-> Append(st.selectfrm,
                          [inclusive |-> FALSE, first |-> sel.first, second |-> 0]),
          max_selection |-> IF LtU32(st.max_selection, sel.first)
                            THEN sel.first ELSE st.max_selection,
          ok |-> TRUE]
    ELSE IF sel.second = 0
    THEN [selectfrm |-> Append(st.selectfrm,
                          [inclusive |-> TRUE, first |-> sel.first, second |-> G_MAXUINT]),
          max_selection |-> G_MAXUINT,
          ok |-> TRUE]
    ELSE [selectfrm |-> Append(st.selectfrm,
                          [inclusive |-> TRUE, first |-> sel.first, second |-> sel.second]),
          max_selection |-> IF LtU32(st.max_selection, sel.first)
                            THEN sel.first ELSE st.max_selection,
          ok |-> TRUE]

\* add_selection on st = [selectfrm, max_selection, ok]; ok is its result
add_selection(st, sel) ==
    IF Len(st.selectfrm) >= MAX_SELECTIONS
    THEN [st EXCEPT !.ok = FALSE]
    ELSE IF ~sel.dash
    THEN [selectfrm |-> Append(st.selectfrm,
                          [inclusive |-> FALSE, first |-> sel.first, second |-> 0]),
          max_selection |-> IF LtU32(st.max_selection, sel.first)
                            THEN sel.first ELSE st.max_selection,
          ok |-> TRUE]
    ELSE IF sel.second = 0
    THEN [selectfrm |-> Append(st.selectfrm,
                          [inclusive |-> TRUE, first |-> sel.first, second |-> G_MAXUINT]),
          max_selection |-> G_MAXUINT,
          ok |-> TRUE]
    ELSE [selectfrm |-> Append(st.selectfrm,
                          [inclusive |-> TRUE, first |-> sel.first, second |-> sel.second]),
          max_selection |-> IF LtU32(st.max_selection, sel.second)
                            THEN sel.second ELSE st.max_selection,
          ok |-> TRUE]

\* the loop over argv[optind + 2 ..], which stops at the first failure; the
\* arguments are gone through half by half, the first half first
RECURSIVE AddSelections(_, _)
AddSelections(st, args) ==
    IF ~st.ok \/ args = <<>> THEN st
    ELSE IF Len(args) = 1 THEN add_selection(st, args[1])
    ELSE AddSelections(AddSelections(st, SubSeq(args, 1, Len(args) \div 2)),
                       SubSeq(args, Len(args) \div 2 + 1, Len(args)))

\* SelectedIn with the lower end of a range excluded
SelectedInExclusive(sf, recno) ==
    \E i \in 1..Len(sf) :
        IF sf[i].inclusive
        THEN LtU32(sf[i].first, recno) /\ LeqU32(recno, sf[i].second)
        ELSE recno = sf[i].first

SelectedIn(sf, recno) ==
    \E i \in 1..Len(sf) :
        IF sf[i].inclusive
        THEN LeqU32(sf[i].first, recno) /\ LeqU32(recno, sf[i].second)
        ELSE recno = sf[i].first

selected(recno) == SelectedIn(selectfrm, recno)

(***************************************************************************)
(* Options: the cases of the getopt_long loop of real_main.                *)
(***************************************************************************)
\* -r
OptR ==
    /\ pc = "options"
    /\ keep_em' = ~keep_em
    /\ UNCHANGED <<selectfrm, max_packet_number, chop, adjlen, snaplen,
                   dup_detect, dup_detect_by_time, dup_window, ignored_bytes,
                   relative_time_window>>
    /\ UNCHANGED <<runvars, obsvars, moreopts, morerun>>

\* the chop_t after -C chopoff:choplen (-C choplen is -C 0:choplen)
ChopAdd(c, chopoff, choplen) ==
    IF choplen > 0
    THEN IF chopoff > 0
         THEN [c EXCEPT !.len_begin = @ + choplen, !.off_begin_pos = @ + chopoff]
         ELSE [c EXCEPT !.len_begin = @ + choplen, !.off_begin_neg = @ + chopoff]
    ELSE IF choplen < 0
    THEN IF chopoff > 0
         THEN [c EXCEPT !.len_end = @ + choplen, !.off_end_pos = @ + chopoff]
         ELSE [c EXCEPT !.len_end = @ + choplen, !.off_end_neg = @ + chopoff]
    ELSE c

\* every field of c is within the model's bound
ChopWithin(c, m) ==
    /\ c.len_begin <= m /\ c.off_begin_pos <= m /\ c.off_begin_neg >= 0 - m
    /\ c.len_end >= 0 - m /\ c.off_end_pos <= m /\ c.off_end_neg >= 0 - m

\* -C
OptC(chopoff, choplen) ==
    /\ pc = "options"
    /\ ChopWithin(ChopAdd(chop, chopoff, choplen), MaxChop)
    /\ chop' = ChopAdd(chop, chopoff, choplen)
    /\ UNCHANGED <<keep_em, selectfrm, max_packet_number, adjlen, snaplen,
                   dup_detect, dup_detect_by_time, dup_window, ignored_bytes,
                   relative_time_window>>
    /\ UNCHANGED <<runvars, obsvars, moreopts, morerun>>

\* -s n, n what get_nonzero_guint32 returned
OptSnaplen(n) ==
    /\ pc = "options"
    /\ snaplen' = n
    /\ UNCHANGED <<keep_em, selectfrm, max_packet_number, chop, adjlen,
                   dup_detect, dup_detect_by_time, dup_window, ignored_bytes,
                   relative_time_window>>
    /\ UNCHANGED <<runvars, obsvars, moreopts, morerun>>

\* --novlan
OptNoVlan ==
    /\ pc = "options"
    /\ rem_vlan' = TRUE
    /\ UNCHANGED nselections
    /\ UNCHANGED <<optvars, runvars, obsvars, moreopts, timerun, errrun,
                   splitrun, iorun>>

\* -L
OptL ==
    /\ pc = "options"
    /\ adjlen' = TRUE
    /\ UNCHANGED <<keep_em, selectfrm, max_packet_number, chop, snaplen,
                   dup_detect, dup_detect_by_time, dup_window, ignored_bytes,
                   relative_time_window>>
    /\ UNCHANGED <<runvars, obsvars, moreopts, morerun>>

\* -D n, n what get_guint32 returned; a window above MAX_DUP_DEPTH ends the
\* run with INVALID_OPTION
OptD(n) ==
    /\ pc = "options"
    /\ dup_detect' = TRUE
    /\ dup_detect_by_time' = FALSE
    /\ dup_window' = n
    /\ IF n > MAX_DUP_DEPTH
       THEN pc' = "exit" /\ ret' = INVALID_OPTION
       ELSE UNCHANGED <<pc, ret>>
    /\ UNCHANGED <<keep_em, selectfrm, max_packet_number, chop, adjlen, snaplen,
                   ignored_bytes, relative_time_window>>
    /\ UNCHANGED <<read_count, count, written_count, duplicate_count,
                   fd_hash, cur_dup_entry>>
    /\ UNCHANGED <<obsvars, moreopts, morerun>>

\* -d
OptDupDefault ==
    /\ pc = "options"
    /\ dup_detect' = TRUE
    /\ dup_detect_by_time' = FALSE
    /\ dup_window' = DEFAULT_DUP_DEPTH
    /\ UNCHANGED <<keep_em, selectfrm, max_packet_number, chop, adjlen, snaplen,
                   ignored_bytes, relative_time_window>>
    /\ UNCHANGED <<runvars, obsvars, moreopts, morerun>>

\* -w with an argument set_rel_time returns FALSE for, t what it has left
\* in relative_time_window by then
OptWInvalid(t) ==
    /\ pc = "options"
    /\ dup_detect' = FALSE
    /\ dup_detect_by_time' = TRUE
    /\ dup_window' = MAX_DUP_DEPTH
    /\ relative_time_window' = t
    /\ pc' = "exit"
    /\ ret' = INVALID_OPTION
    /\ UNCHANGED <<keep_em, selectfrm, max_packet_number, chop, adjlen, snaplen,
                   ignored_bytes>>
    /\ UNCHANGED <<read_count, count, written_count, duplicate_count,
                   fd_hash, cur_dup_entry>>
    /\ UNCHANGED <<obsvars, moreopts, morerun>>

\* OptW without the reset of dup_detect
OptWKeepsContent(t) ==
    /\ pc = "options"
    /\ dup_detect_by_time' = TRUE
    /\ dup_window' = MAX_DUP_DEPTH
    /\ relative_time_window' = t
    /\ UNCHANGED <<keep_em, selectfrm, max_packet_number, chop, adjlen, snaplen,
                   ignored_bytes, dup_detect>>
    /\ UNCHANGED <<runvars, obsvars, moreopts, morerun>>

\* -w t, t what set_rel_time stores: seconds and nanoseconds in [0, 1e9)
OptW(t) ==
    /\ pc = "options"
    /\ dup_detect' = FALSE
    /\ dup_detect_by_time' = TRUE
    /\ dup_window' = MAX_DUP_DEPTH
    /\ relative_time_window' = t
    /\ UNCHANGED <<keep_em, selectfrm, max_packet_number, chop, adjlen, snaplen,
                   ignored_bytes>>
    /\ UNCHANGED <<runvars, obsvars, moreopts, morerun>>

\* set_strict_time_adj and set_time_adjustment on what strtol made of the
\* argument: a leading '-' (neg), the whole seconds, and the fraction as
\* nanoseconds when there is one (frac); the sign is never cleared, and
\* the nanoseconds are left as they were by an argument without fraction
SetTimeAdjustment(adj, arg) ==
    [tv |-> [secs |-> arg.secs,
             nsecs |-> IF arg.frac THEN arg.nsecs ELSE adj.tv.nsecs],
     is_negative |-> IF arg.neg THEN 1 ELSE adj.is_negative]

\* -S
OptS(arg) ==
    /\ pc = "options"
    /\ strict_time_adj' = SetTimeAdjustment(strict_time_adj, arg)
    /\ IF arg.ok
       THEN do_strict_time_adjustment' = TRUE /\ UNCHANGED <<pc, ret>>
       ELSE pc' = "exit" /\ ret' = INVALID_OPTION
                /\ UNCHANGED do_strict_time_adjustment
    /\ UNCHANGED <<time_adj, optvars, obsvars, morerun>>
    /\ UNCHANGED <<erropts, splitopts, filteropts>>
    /\ UNCHANGED <<read_count, count, written_count, duplicate_count,
                   fd_hash, cur_dup_entry>>

\* -t
OptT(arg) ==
    /\ pc = "options"
    /\ time_adj' = SetTimeAdjustment(time_adj, arg)
    /\ IF arg.ok
       THEN UNCHANGED <<pc, ret>>
       ELSE pc' = "exit" /\ ret' = INVALID_OPTION
    /\ UNCHANGED <<do_strict_time_adjustment, strict_time_adj, optvars, obsvars,
                   morerun>>
    /\ UNCHANGED <<erropts, splitopts, filteropts>>
    /\ UNCHANGED <<read_count, count, written_count, duplicate_count,
                   fd_hash, cur_dup_entry>>

\* -I n
OptI(n) ==
    /\ pc = "options"
    /\ ignored_bytes' = n
    /\ UNCHANGED <<keep_em, selectfrm, max_packet_number, chop, adjlen, snaplen,
                   dup_detect, dup_detect_by_time, dup_window,
                   relative_time_window>>
    /\ UNCHANGED <<runvars, obsvars, moreopts, morerun>>

\* -E: arg.ok is whether strtod consumed a character of the argument,
\* arg.value what it returned
OptE(arg) ==
    /\ pc = "options"
    /\ err_prob' = arg.value
    /\ IF ~arg.ok \/ arg.value.num < 0 \/ arg.value.num > arg.value.den
       THEN pc' = "exit" /\ ret' = INVALID_OPTION
       ELSE UNCHANGED <<pc, ret>>
    /\ UNCHANGED <<change_offset, valid_seed, seed>>
    /\ UNCHANGED <<optvars, obsvars, morerun, timeopts, splitopts, filteropts>>
    /\ UNCHANGED <<read_count, count, written_count, duplicate_count,
                   fd_hash, cur_dup_entry>>

\* -o n
OptO(n) ==
    /\ pc = "options"
    /\ change_offset' = n
    /\ UNCHANGED <<err_prob, valid_seed, seed>>
    /\ UNCHANGED <<optvars, runvars, obsvars, morerun, timeopts, splitopts,
                   filteropts>>

\* --seed: arg.ok is whether sscanf converted a number, arg.value the number
OptSeed(arg) ==
    /\ pc = "options"
    /\ IF arg.ok
       THEN seed' = arg.value /\ valid_seed' = TRUE /\ UNCHANGED <<pc, ret>>
       ELSE pc' = "exit" /\ ret' = INVALID_OPTION /\ UNCHANGED <<seed, valid_seed>>
    /\ UNCHANGED <<err_prob, change_offset>>
    /\ UNCHANGED <<optvars, obsvars, morerun, timeopts, splitopts, filteropts>>
    /\ UNCHANGED <<read_count, count, written_count, duplicate_count,
                   fd_hash, cur_dup_entry>>

\* -c n, n a number other than 0
OptSplitCount(n) ==
    /\ pc = "options"
    /\ split_packet_count' = n
    /\ UNCHANGED secs_per_block
    /\ UNCHANGED <<optvars, runvars, obsvars, morerun, timeopts, erropts,
                   filteropts>>

\* -i n, n a number other than 0
OptSplitTime(n) ==
    /\ pc = "options"
    /\ secs_per_block' = n
    /\ UNCHANGED split_packet_count
    /\ UNCHANGED <<optvars, runvars, obsvars, morerun, timeopts, erropts,
                   filteropts>>

\* -A: arg.ok is whether strptime took the argument, arg.value what mktime
\* made of it
OptA(arg) ==
    /\ pc = "options"
    /\ IF arg.ok
       THEN check_startstop' = TRUE /\ starttime' = arg.value
                /\ UNCHANGED <<pc, ret>>
       ELSE pc' = "exit" /\ ret' = INVALID_OPTION
                /\ UNCHANGED <<check_startstop, starttime>>
    /\ UNCHANGED <<stoptime, skip_radiotap>>
    /\ UNCHANGED <<optvars, obsvars, morerun, timeopts, erropts, splitopts>>
    /\ UNCHANGED <<read_count, count, written_count, duplicate_count,
                   fd_hash, cur_dup_entry>>

\* -B
OptB(arg) ==
    /\ pc = "options"
    /\ IF arg.ok
       THEN check_startstop' = TRUE /\ stoptime' = arg.value
                /\ UNCHANGED <<pc, ret>>
       ELSE pc' = "exit" /\ ret' = INVALID_OPTION
                /\ UNCHANGED <<check_startstop, stoptime>>
    /\ UNCHANGED <<starttime, skip_radiotap>>
    /\ UNCHANGED <<optvars, obsvars, morerun, timeopts, erropts, splitopts>>
    /\ UNCHANGED <<read_count, count, written_count, duplicate_count,
                   fd_hash, cur_dup_entry>>

\* --skip-radiotap-header
OptSkipRadiotap ==
    /\ pc = "options"
    /\ skip_radiotap' = TRUE
    /\ UNCHANGED <<check_startstop, starttime, stoptime>>
    /\ UNCHANGED <<optvars, runvars, obsvars, morerun, timeopts, erropts,
                   splitopts>>

(***************************************************************************)
(* The packet buffer.  mem maps the addresses around the buffer wiretap    *)
(* returned (address 0 is its first byte) to bytes; an address that holds  *)
(* no byte of the packet holds junk, one of the Indeterminate values.      *)
(* start is what *buf points to.                                           *)
(***************************************************************************)
MemLo == 0 - MemPad
MemHi == MaxCaplen + MemPad
Addrs == MemLo..MemHi

\* the addresses around a buffer that holds bytes: Addrs, and for a packet
\* longer than MaxCaplen those up to MemPad beyond its last byte
AddrsOf(bytes) ==
    IF Len(bytes) > MaxCaplen THEN MemLo..(Len(bytes) + MemPad) ELSE Addrs

MemOf(bytes, junk) ==
    [a \in AddrsOf(bytes) |->
        IF 0 <= a /\ a < Len(bytes) THEN bytes[a + 1] ELSE junk]

\* the n bytes at start .. start + n - 1, what wtap_dump is handed
BytesAt(mem, start, n, junk) ==
    [i \in 1..n |->
        IF (start + i - 1) \in DOMAIN mem THEN mem[start + i - 1] ELSE junk]

\* memmove(dst, src, n): the source is read whole before anything is written;
\* n is a size_t, so a negative n is a count beyond every address
memmove(mem, dst, src, n, junk) ==
    [a \in DOMAIN mem |->
        IF dst <= a /\ (n < 0 \/ a < dst + n)
        THEN (IF (a - dst + src) \in DOMAIN mem THEN mem[a - dst + src] ELSE junk)
        ELSE mem[a]]

(***************************************************************************)
(* handle_chopping.                                                        *)
(***************************************************************************)
\* lines 2000-2003: no length on a side makes its offsets meaningless
ChopDropOffsets(c) ==
    LET c1 == IF c.len_begin = 0
              THEN [c EXCEPT !.off_begin_pos = 0, !.off_begin_neg = 0] ELSE c
    IN  IF c1.len_end = 0
        THEN [c1 EXCEPT !.off_end_pos = 0, !.off_end_neg = 0] ELSE c1

\* lines 2005-2012: one offset per side, the front's from the start of the
\* packet and the back's from its end
ChopConvertOffsets(c, caplen) ==
    LET c1 == IF c.off_begin_neg < 0
              THEN [c EXCEPT !.off_begin_pos = @ + caplen + c.off_begin_neg,
                             !.off_begin_neg = 0]
              ELSE c
    IN  IF c1.off_end_pos > 0
        THEN [c1 EXCEPT !.off_end_neg = @ + c1.off_end_pos - caplen,
                        !.off_end_pos = 0]
        ELSE c1

\* line 2016: the test for crossed regions
ChopCrossed(c, caplen) ==
    c.off_begin_pos > caplen + c.off_end_neg

\* lines 2015-2028: crossed regions are swapped
ChopSwap(c, caplen) ==
    IF c.len_begin # 0 /\ c.len_end # 0 /\ ChopCrossed(c, caplen)
    THEN [c EXCEPT !.off_end_neg = c.len_begin + c.off_begin_pos - caplen,
                   !.len_end = 0 - c.len_begin,
                   !.len_begin = 0 - c.len_end,
                   !.off_begin_pos = caplen + c.off_end_neg + c.len_end]
    ELSE c

\* ChopZero without the test of the offsets
ChopNoZero(c, caplen) == c

\* lines 2031-2034: offsets that leave nothing of the packet
ChopZero(c, caplen) ==
    IF LtU32(caplen, c.off_begin_pos - c.off_end_neg)
    THEN [c EXCEPT !.len_begin = 0, !.len_end = 0]
    ELSE c

\* ChopClamp without the test of the lengths
ChopNoClamp(c, caplen) == c

\* lines 2035-2039: lengths beyond what the offsets leave
ChopClamp(c, caplen) ==
    IF LtU32(caplen - (c.off_begin_pos - c.off_end_neg), c.len_begin - c.len_end)
    THEN [c EXCEPT !.len_begin = caplen - (c.off_begin_pos - c.off_end_neg),
                   !.len_end = 0]
    ELSE c

\* lines 2000-2039
ChopNormalize(c, caplen) ==
    ChopClamp(ChopZero(ChopSwap(ChopConvertOffsets(ChopDropOffsets(c), caplen),
                                caplen), caplen), caplen)

\* lines 2055-2060: the reported length after the front chop
ChopFrontLen(len, len_begin, adj) ==
    IF adj
    THEN (IF LtU32(len_begin, len) THEN len - len_begin ELSE 0)
    ELSE len

\* ChopBackLen without the floor at zero
ChopBackLenNoFloor(len, len_end, adj) ==
    IF adj THEN len + len_end ELSE len

\* lines 2076-2081: the reported length after the back chop
ChopBackLen(len, len_end, adj) ==
    IF adj
    THEN (IF len + len_end > 0 THEN len + len_end ELSE 0)
    ELSE len

\* lines 2043-2062 on p = [caplen, len, mem, start, junk]; c is normalized
ChopFront(c, p, adj) ==
    IF c.len_begin > 0
    THEN [caplen |-> p.caplen - c.len_begin,
          len    |-> ChopFrontLen(p.len, c.len_begin, adj),
          mem    |-> IF c.off_begin_pos > 0
                     THEN memmove(p.mem, p.start + c.off_begin_pos,
                                  p.start + c.off_begin_pos + c.len_begin,
                                  p.caplen - c.len_begin, p.junk)
                     ELSE p.mem,
          start  |-> IF c.off_begin_pos > 0 THEN p.start ELSE p.start + c.len_begin,
          junk   |-> p.junk]
    ELSE p

\* lines 2066-2083
ChopBack(c, p, adj) ==
    IF c.len_end < 0
    THEN [caplen |-> p.caplen + c.len_end,
          len    |-> ChopBackLen(p.len, c.len_end, adj),
          mem    |-> IF c.off_end_neg < 0
                     THEN memmove(p.mem,
                                  p.start + p.caplen + (c.len_end + c.off_end_neg),
                                  p.start + p.caplen + c.off_end_neg,
                                  0 - c.off_end_neg, p.junk)
                     ELSE p.mem,
          start  |-> p.start,
          junk   |-> p.junk]
    ELSE p

\* lines 2046-2050: the call of memmove of the front chop on a packet of
\* caplen bytes at start, c normalized
ChopFrontMoves(c, caplen, start) ==
    IF c.len_begin > 0 /\ c.off_begin_pos > 0
    THEN {[dst |-> start + c.off_begin_pos,
           src |-> start + c.off_begin_pos + c.len_begin,
           n |-> caplen - c.len_begin]}
    ELSE {}

\* lines 2069-2073: the call of memmove of the back chop, caplen and start
\* being what the front chop left
ChopBackMoves(c, caplen, start) ==
    IF c.len_end < 0 /\ c.off_end_neg < 0
    THEN {[dst |-> start + caplen + (c.len_end + c.off_end_neg),
           src |-> start + caplen + c.off_end_neg,
           n |-> 0 - c.off_end_neg]}
    ELSE {}

\* lines 2043-2074: the calls of memmove handle_chopping makes
ChopMoves(c, caplen, start) ==
    ChopFrontMoves(c, caplen, start)
        \cup ChopBackMoves(c,
                 IF c.len_begin > 0 THEN caplen - c.len_begin ELSE caplen,
                 IF c.len_begin > 0 /\ c.off_begin_pos <= 0
                 THEN start + c.len_begin ELSE start)

\* handle_chopping: the header fields and the buffer after it, with the
\* normalized chop_t it worked from
ChopResult(n, q) ==
    [caplen |-> q.caplen, len |-> q.len, mem |-> q.mem, start |-> q.start,
     junk |-> q.junk, norm |-> n]

\* lines 2041-2083 with the normalized chop_t n
ChopApply(n, p, adj) ==
    ChopResult(n, ChopBack(n, ChopFront(n, p, adj), adj))

handle_chopping(c, p, adj) ==
    ChopApply(ChopNormalize(c, p.caplen), p, adj)

(***************************************************************************)
(* Duplicate detection.                                                    *)
(***************************************************************************)
\* gcry_md_hash_buffer(GCRY_MD_MD5, ...): a digest that differs from the
\* zeroed digest and differs for different byte strings
MD5(bytes) == <<"md5", bytes>>

\* DupOffset with the reset made for a length below the ignored bytes only
DupOffsetBelow(len, ignored) ==
    IF LtU32(len, ignored) THEN 0 ELSE ignored

\* lines 584-590 and 631-637: where the digest starts
DupOffset(len, ignored) ==
    IF LeqU32(len, ignored) THEN 0 ELSE ignored

\* pletoh16: the 16-bit little-endian number at address a
pletoh16(mem, a, junk) ==
    LET lo == IF a \in DOMAIN mem THEN mem[a] ELSE junk
        hi == IF (a + 1) \in DOMAIN mem THEN mem[a + 1] ELSE junk
    IN  (lo % 256) + 256 * (hi % 256)

\* lines 592-598: with --skip-radiotap-header the digest starts after the
\* radiotap header, whose length is its field it_len at byte 2
RadiotapOffset(mem, start, len, offset, junk) ==
    IF skip_radiotap
    THEN (IF pletoh16(mem, start + 2, junk) >= len
          THEN 0
          ELSE pletoh16(mem, start + 2, junk))
    ELSE offset

\* lines 603-605 and 642-644: the next slot of the ring
NextDupEntry(cur, window) ==
    IF cur + 1 >= window THEN 0 ELSE cur + 1

\* DupInWindow looking only at the slots below cur
DupInWindowBelow(h, cur, window) ==
    \E i \in 0..(cur - 1) :
        /\ h[i].len = h[cur].len
        /\ h[i].digest = h[cur].digest

\* DupInWindow with a loop that runs up to slot window and does not skip
\* slot cur
DupInWindowInclusive(h, cur, window) ==
    \E i \in DOMAIN h :
        /\ i <= window
        /\ h[i].len = h[cur].len
        /\ h[i].digest = h[cur].digest

\* lines 613-621: some other slot holds the fingerprint of slot cur
DupInWindow(h, cur, window) ==
    \E i \in DOMAIN h :
        /\ i < window
        /\ i # cur
        /\ h[i].len = h[cur].len
        /\ h[i].digest = h[cur].digest

\* is_duplicate(fd, len) on the ring h with cursor cur0
is_duplicate(h, cur0, window, ignored, mem, start, len, junk) ==
    LET offset == RadiotapOffset(mem, start, len, DupOffset(len, ignored), junk)
        cur    == NextDupEntry(cur0, window)
        h1     == [h EXCEPT ![cur] = [@ EXCEPT
                      !.digest = MD5(BytesAt(mem, start + offset, len - offset, junk)),
                      !.len = len]]
    IN  [fd_hash |-> h1, cur |-> cur, ran |-> TRUE,
         dup |-> DupInWindow(h1, cur, window), visited |-> 0]

\* DeltaNegative taking no delta for negative
DeltaNeverNegative(delta) == FALSE

\* line 699: the cached packet is later than the current one
DeltaNegative(delta) == delta.secs < 0 \/ delta.nsecs < 0

\* BeyondWindow taking a delta equal to the window for beyond it
BeyondWindowOrEqual(delta, window_time) == nstime_cmp(delta, window_time) >= 0

\* lines 721-723: the cached packet is beyond the time window
BeyondWindow(delta, window_time) == nstime_cmp(delta, window_time) > 0

\* RelTimeScan ending the walk at a cached packet later than the current
\* one
RECURSIVE RelTimeScanBreak(_, _, _, _, _, _, _)
RelTimeScanBreak(h, cur, window, window_time, current, i0, visited) ==
    LET i == IF i0 < 0 THEN window - 1 ELSE i0
    IN  IF i = cur
        THEN [dup |-> FALSE, visited |-> visited]
        ELSE IF nstime_is_unset(h[i].frame_time)
        THEN [dup |-> FALSE, visited |-> visited + 1]
        ELSE LET delta == nstime_delta(current, h[i].frame_time)
             IN  IF DeltaNegative(delta) \/ BeyondWindow(delta, window_time)
                 THEN [dup |-> FALSE, visited |-> visited + 1]
                 ELSE IF /\ h[i].len = h[cur].len
                         /\ h[i].digest = h[cur].digest
                 THEN [dup |-> TRUE, visited |-> visited + 1]
                 ELSE RelTimeScanBreak(h, cur, window, window_time, current,
                                       i - 1, visited + 1)

\* lines 674-736: the walk back from slot i0; visited counts the slots
\* looked at so far
RECURSIVE RelTimeScan(_, _, _, _, _, _, _)
RelTimeScan(h, cur, window, window_time, current, i0, visited) ==
    LET i == IF i0 < 0 THEN window - 1 ELSE i0
    IN  IF i = cur
        THEN [dup |-> FALSE, visited |-> visited]
        ELSE IF nstime_is_unset(h[i].frame_time)
        THEN [dup |-> FALSE, visited |-> visited + 1]
        ELSE LET delta == nstime_delta(current, h[i].frame_time)
             IN  IF DeltaNegative(delta)
                 THEN RelTimeScan(h, cur, window, window_time, current,
                                  i - 1, visited + 1)
                 ELSE IF BeyondWindow(delta, window_time)
                 THEN [dup |-> FALSE, visited |-> visited + 1]
                 ELSE IF /\ h[i].len = h[cur].len
                         /\ h[i].digest = h[cur].digest
                 THEN [dup |-> TRUE, visited |-> visited + 1]
                 ELSE RelTimeScan(h, cur, window, window_time, current,
                                  i - 1, visited + 1)

\* is_duplicate_rel_time(fd, len, current)
is_duplicate_rel_time(h, cur0, window, ignored, window_time, mem, start, len, current, junk) ==
    LET offset == DupOffset(len, ignored)
        cur    == NextDupEntry(cur0, window)
        h1     == [h EXCEPT ![cur] =
                      [digest |-> MD5(BytesAt(mem, start + offset, len - offset, junk)),
                       len |-> len,
                       frame_time |-> NsTime(current.secs, current.nsecs)]]
        scan   == RelTimeScan(h1, cur, window, window_time, current, cur - 1, 0)
    IN  [fd_hash |-> h1, cur |-> cur, ran |-> TRUE,
         dup |-> scan.dup, visited |-> scan.visited]

(***************************************************************************)
(* The run: real_main from the end of the option loop.                     *)
(***************************************************************************)
\* lines 1422-1428: the ring is reset before the first record is read
ResetFdHash(h, window) ==
    [i \in DOMAIN h |->
        IF i < window
        THEN [digest |-> ZeroDigest, len |-> 0, frame_time |-> nstime_unset]
        ELSE h[i]]

\* the values of rand() the model follows: the least value that gives each
\* selector at either end of an outcome's range
RandVals ==
    {r * (RAND_MAX \div ERR_WT_TOTAL + 1) : r \in {0, 4, 5, 9, 10, 14, 15, 16, 17}}

\* the least and the greatest of them
RandEnds == {0, 17 * (RAND_MAX \div ERR_WT_TOTAL + 1)}

\* the sequences a seeded generator may give: any of RandVals as the second
\* value, which is the selector when the first byte looked at is chosen, and
\* one of RandEnds as any other
Streams ==
    {st \in [1..RandPeriod -> RandVals] :
        \A i \in 1..RandPeriod : i # 2 => st[i] \in RandEnds}

\* of the sequences a generator seeded otherwise gives, the constant ones
OtherStreams == {[i \in 1..RandPeriod |-> v] : v \in RandEnds}

\* time(NULL) + ws_getpid() in this run and in the second run
Clocks == {<<1, 1>>, <<1, 2>>}

\* the generator after srand(sd), st being the sequence that seed gives
Gen(sd, st) == [seeded |-> TRUE, seed |-> sd, stream |-> st, consumed |-> 0]

\* SeedUsed with the argument of --seed ignored
SeedClock(valid, sd, clock) == clock

\* lines 1337-1339: the seed srand is given
SeedUsed(valid, sd, clock) == IF valid THEN sd ELSE clock

\* the two runs are seeded with s1 and s2; one seed gives one sequence
Seeded(s1, s2, st) ==
    /\ seed' = s1
    /\ rand_state' = Gen(s1, st)
    /\ \E st2 \in (IF s2 = s1 THEN {st} ELSE OtherStreams) :
           twin' = [rand_state |-> Gen(s2, st2), outfile |-> <<>>]

\* lines 1336-1344
Srand ==
    IF err_prob.num >= 0
    THEN \E st \in Streams, c \in Clocks :
             Seeded(SeedUsed(valid_seed, seed, c[1]),
                    SeedUsed(valid_seed, seed, c[2]), st)
    ELSE UNCHANGED <<seed, rand_state, twin>>

\* what mktime makes of the last day of 2035 (lines 1349-1356), in UTC
DefaultStopTime == 2082672000

\* lines 1346-1357
StopTime == IF check_startstop /\ stoptime = 0 THEN DefaultStopTime ELSE stoptime

\* line 1361
StartAfterStop == starttime > StopTime

\* line 1367
SplitBoth == split_packet_count # 0 /\ secs_per_block # 0

\* line 1388
RadiotapAndIgnored == ignored_bytes # 0 /\ skip_radiotap

\* line 1395, radiotap being whether the input has that encapsulation
RadiotapOnOther(radiotap) == skip_radiotap /\ ~radiotap

\* ConfigRejected without the check of line 1388
ConfigRejectedButIgnored(radiotap) ==
    StartAfterStop \/ SplitBoth \/ RadiotapOnOther(radiotap)

\* the checks of lines 1361-1402 end the run
ConfigRejected(radiotap) ==
    StartAfterStop \/ SplitBoth \/ RadiotapAndIgnored \/ RadiotapOnOther(radiotap)

\* lines 1411-1428, args the selection arguments after <infile> <outfile>
Selections(args) ==
    /\ LET st == AddSelections([selectfrm |-> selectfrm,
                                max_selection |-> max_packet_number,
                                ok |-> TRUE], args)
       IN  /\ selectfrm' = st.selectfrm
           /\ max_packet_number' = IF ~keep_em THEN G_MAXUINT ELSE st.max_selection
    /\ fd_hash' = IF dup_detect \/ dup_detect_by_time
                  THEN ResetFdHash(fd_hash, dup_window) ELSE fd_hash
    /\ pc' = "reading"
    /\ UNCHANGED ret

\* lines 1374-1381: wtap_open_offline returned NULL
OpenFailed ==
    /\ pc' = "exit"
    /\ ret' = INVALID_FILE
    /\ io_errors' = io_errors \cup {"open"}
    /\ UNCHANGED <<selectfrm, max_packet_number, fd_hash>>

\* lines 1329-1428: from the end of the option loop to the read loop, args
\* the selection arguments after <infile> <outfile>, opened whether
\* wtap_open_offline opens the input file
BeforeLoop(args, opened) ==
    /\ pc = "options"
    /\ Srand
    /\ stoptime' = StopTime
    /\ block_start' = nstime_unset
    /\ nselections' = Len(args)
    /\ UNCHANGED rem_vlan
    /\ \E radiotap \in (IF skip_radiotap THEN BOOLEAN ELSE {TRUE}) :
           IF ~opened /\ ~StartAfterStop /\ ~SplitBoth
           THEN OpenFailed
           ELSE /\ UNCHANGED io_errors
                /\ IF ConfigRejected(radiotap)
                   THEN /\ pc' = "exit"
                        /\ ret' = INVALID_OPTION
                        /\ UNCHANGED <<selectfrm, max_packet_number, fd_hash>>
                   ELSE Selections(args)
    /\ UNCHANGED <<keep_em, chop, adjlen, snaplen, dup_detect, dup_detect_by_time,
                   dup_window, ignored_bytes, relative_time_window>>
    /\ UNCHANGED <<read_count, count, written_count, duplicate_count,
                   cur_dup_entry>>
    /\ UNCHANGED <<obsvars, timeopts, timerun, splitopts>>
    /\ UNCHANGED <<err_prob, change_offset, valid_seed, sinks>>
    /\ UNCHANGED <<check_startstop, starttime, skip_radiotap>>

\* BeforeLoop with an input file that opens
StartRun(args) == BeforeLoop(args, TRUE)

\* lines 1544-1559
TsOkay(rec) ==
    IF check_startstop
    THEN rec.has_ts /\ rec.ts.secs >= starttime /\ rec.ts.secs < stoptime
    ELSE TRUE

\* Emit with the -r flag ignored
EmitDeleteOnly(recno, ts_okay) ==
    ts_okay /\ ~selected(recno)

\* line 1561: the packet goes on to the later stages
Emit(recno, ts_okay) ==
    ts_okay /\ ((~selected(recno) /\ ~keep_em) \/ (selected(recno) /\ keep_em))

\* lines 1597-1605 and 1616-1624: the time stamp before, moved on by the
\* strict adjustment
StrictAfter(prev, adj) ==
    IF prev.nsecs + adj.tv.nsecs >= ONE_BILLION
    THEN NsTime(prev.secs + adj.tv.secs + 1, prev.nsecs + adj.tv.nsecs - ONE_BILLION)
    ELSE NsTime(prev.secs + adj.tv.secs, prev.nsecs + adj.tv.nsecs)

\* line 1576: a packet before this one left its time stamp
PreviousSet(prev) == prev.secs # 0 \/ prev.nsecs # 0

\* StrictAdjust leaving every time stamp as it is
StrictAdjustNone(ts, prev, adj) == ts

\* lines 1575-1628: the time stamp after -S
StrictAdjust(ts, prev, adj) ==
    IF ~PreviousSet(prev) THEN ts
    ELSE IF adj.is_negative = 0
    THEN (IF DeltaNegative(nstime_delta(ts, prev)) THEN StrictAfter(prev, adj) ELSE ts)
    ELSE StrictAfter(prev, adj)

\* lines 1632-1640: the seconds of -t
ShiftSecs(ts, adj) ==
    IF adj.tv.secs # 0
    THEN (IF adj.is_negative # 0
          THEN NsTime(ts.secs - adj.tv.secs, ts.nsecs)
          ELSE NsTime(ts.secs + adj.tv.secs, ts.nsecs))
    ELSE ts

\* ShiftNsecs without carry and borrow
ShiftNsecsNoCarry(ts, adj) ==
    IF adj.is_negative # 0
    THEN NsTime(ts.secs, ts.nsecs - adj.tv.nsecs)
    ELSE NsTime(ts.secs, ts.nsecs + adj.tv.nsecs)

\* lines 1642-1661: the nanoseconds of -t
ShiftNsecs(ts, adj) ==
    IF adj.tv.nsecs # 0
    THEN (IF adj.is_negative # 0
          THEN (IF ts.nsecs < adj.tv.nsecs
                THEN NsTime(ts.secs - 1, ts.nsecs + ONE_BILLION - adj.tv.nsecs)
                ELSE NsTime(ts.secs, ts.nsecs - adj.tv.nsecs))
          ELSE (IF ts.nsecs + adj.tv.nsecs >= ONE_BILLION
                THEN NsTime(ts.secs + 1, ts.nsecs + adj.tv.nsecs - ONE_BILLION)
                ELSE NsTime(ts.secs, ts.nsecs + adj.tv.nsecs)))
    ELSE ts

\* lines 1632-1661
FixedShift(ts, adj) == ShiftNsecs(ShiftSecs(ts, adj), adj)

\* lines 1665-1680: -s, on p = [caplen, len, mem, start, junk]
Snap(p, snap, adj) ==
    IF snap # 0
    THEN [p EXCEPT !.caplen = IF LtU32(snap, @) THEN snap ELSE @,
                   !.len = IF adj /\ LtU32(snap, @) THEN snap ELSE @]
    ELSE p

\* The stages of one pass of the loop body work on x: the record read
\* (rec), its number, whether it goes on to the later stages (emit), the
\* header fields and the buffer as they stand (p), and what the stages did.
\* The calls on the output file (fileset_extract_prefix_suffix,
\* editcap_dump_open, wtap_dump, wtap_dump_close) either all succeed or
\* the first "after" of them succeed and the next one fails.
IoOkay == [fails |-> FALSE, after |-> 0]

IoFailsAfter(n) == [fails |-> TRUE, after |-> n]

\* x after a call on the output file: a failing one sets ret to code and
\* leaves the loop
Output(x, kind, code) ==
    IF x.ret # 0 THEN x
    ELSE IF x.io.fails /\ x.io.after = 0
         THEN [x EXCEPT !.ret = code, !.failed = kind]
         ELSE [x EXCEPT !.io.after = IF x.io.fails THEN @ - 1 ELSE @]

\* remove_vlan_info was not called
NoVlan == [ran |-> FALSE]

\* lines 1437-1562
StageSelect(rec, junk, io) ==
    [recno |-> count, rec |-> rec,
     emit |-> Emit(count, TsOkay(rec)),
     isp |-> rec.rec_type = REC_TYPE_PACKET,
     p |-> [caplen |-> rec.caplen, len |-> rec.len,
            mem |-> MemOf(rec.buf, junk), start |-> 0, junk |-> junk],
     before |-> [caplen |-> rec.caplen, len |-> rec.len,
                 mem |-> MemOf(rec.buf, junk), start |-> 0, junk |-> junk],
     norm |-> NoChop,
     ts |-> rec.ts, ts_strict |-> rec.ts, previous_time |-> previous_time,
     fd_hash |-> fd_hash, cur |-> cur_dup_entry,
     ran_dedup |-> FALSE, dup |-> FALSE, visited |-> 0,
     gen |-> rand_state, mutations |-> <<>>, changed |-> {},
     block_start |-> block_start, sinks |-> sinks, rotations |-> 0,
     more |-> FALSE,
     io |-> io, ret |-> 0, failed |-> "", written |-> FALSE,
     vlan |-> NoVlan]

\* lines 1441-1446: the name of a file set is taken apart
Prefixed(x) ==
    IF split_packet_count # 0 \/ secs_per_block # 0
    THEN Output(x, "prefix", CANT_EXTRACT_PREFIX)
    ELSE x

\* editcap_dump_open and the test that follows it: x is what the call left
FileOpened(x, files) ==
    IF x.ret = 0 THEN [x EXCEPT !.sinks = files] ELSE x

\* lines 1439-1471: the first record read opens the first output file
Opened(x) ==
    IF read_count = 0
    THEN FileOpened(Output(Prefixed(x), "open", INVALID_FILE), <<0>>)
    ELSE x

\* lines 1478-1481
BlockStarted(x) ==
    IF x.rec.has_ts /\ nstime_is_unset(x.block_start)
    THEN [x EXCEPT !.block_start = x.rec.ts]
    ELSE x

\* lines 1483-1485: the difference of the seconds is cast to guint32
RotateDue(ts, bs) ==
    \/ LtU32(secs_per_block, ts.secs - bs.secs)
    \/ (ts.secs - bs.secs = secs_per_block /\ ts.nsecs >= bs.nsecs)

\* lines 1487-1491 and 1518-1522: the file is closed
FileClosed(x) == Output(x, "close", WRITE_ERROR)

\* lines 1493-1509 and 1524-1540: the next file is opened
Reopened(x) ==
    FileOpened([Output(x, "open", INVALID_FILE) EXCEPT !.rotations = @ + 1],
               Append(x.sinks, 0))

\* line 1492
NextBlock(x) ==
    IF x.ret = 0 THEN [x EXCEPT !.block_start.secs = @ + secs_per_block] ELSE x

\* lines 1487-1510: the file is closed and the next one opened
Rotated(x) == Reopened(FileClosed(x))

RECURSIVE TimeRotate(_)
\* the loop at line 1483; more says that it has opened MaxRotations files
\* and goes on
TimeRotate(x) ==
    IF x.ret = 0 /\ RotateDue(x.rec.ts, x.block_start)
    THEN (IF x.rotations >= MaxRotations
          THEN [x EXCEPT !.more = TRUE]
          ELSE TimeRotate(Reopened(NextBlock(FileClosed(x)))))
    ELSE x

\* lines 1482-1512
TimeRotated(x) ==
    IF x.ret = 0 /\ x.rec.has_ts /\ secs_per_block # 0 THEN TimeRotate(x) ELSE x

\* lines 1515-1542
CountRotated(x) ==
    IF split_packet_count # 0 /\ written_count > 0
       /\ written_count % split_packet_count = 0
    THEN Rotated(x)
    ELSE x

\* x after the loop at line 1483: a loop that goes on leaves the rest of
\* the body undone
SplitByCount(x) ==
    IF x.more \/ x.ret # 0 THEN [x EXCEPT !.emit = FALSE] ELSE CountRotated(x)

\* a failed call has left the loop: the later stages are not run
Left(x) == IF x.ret # 0 THEN [x EXCEPT !.emit = FALSE] ELSE x

\* lines 1439-1542; nothing of them bears on the test of line 1561, which
\* StageSelect has made
StageSplit(x) ==
    Left(SplitByCount(TimeRotated(BlockStarted(Opened(x)))))

\* x after the strict adjustment left the time stamp t
StrictAdjusted(x, t) ==
    [x EXCEPT !.ts_strict = t, !.ts = FixedShift(t, time_adj),
              !.previous_time = t]

\* lines 1572-1662
StageTime(x) ==
    IF x.emit /\ x.rec.has_ts
    THEN (IF do_strict_time_adjustment
          THEN StrictAdjusted(x, StrictAdjust(x.ts, x.previous_time, strict_time_adj))
          ELSE [x EXCEPT !.ts = FixedShift(x.ts, time_adj)])
    ELSE x

\* lines 1664-1680
StageSnap(x) ==
    IF x.emit /\ x.isp
    THEN [x EXCEPT !.p = Snap(@, snaplen, adjlen)]
    ELSE x

\* x after handle_chopping returned h
Chopped(x, h) ==
    [x EXCEPT !.before = x.p,
              !.p = [caplen |-> h.caplen, len |-> h.len,
                     mem |-> h.mem, start |-> h.start, junk |-> h.junk],
              !.norm = h.norm]

\* lines 1686-1690
StageChop(x) ==
    IF x.emit /\ x.isp
    THEN Chopped(x, handle_chopping(chop, x.p, adjlen))
    ELSE x

\* pntoh16: the 16-bit big-endian number at address a
pntoh16(mem, a, junk) ==
    LET hi == IF a \in DOMAIN mem THEN mem[a] ELSE junk
        lo == IF (a + 1) \in DOMAIN mem THEN mem[a + 1] ELSE junk
    IN  256 * (hi % 256) + (lo % 256)

\* lines 551-564: fd the address of the first byte, len the captured length
\* as a guint32; reads are the indices of the bytes looked at
sll_remove_vlan_info(mem, fd, len, junk) ==
    IF pntoh16(mem, fd + LINUX_SLL_OFFSETP, junk) = ETHERTYPE_VLAN
    THEN [mem |-> memmove(mem, fd + LINUX_SLL_OFFSETP,
                          fd + LINUX_SLL_OFFSETP + VLAN_SIZE,
                          len - (LINUX_SLL_OFFSETP + VLAN_SIZE), junk),
          len |-> len - 4, found |-> TRUE,
          rest_len |-> len - (LINUX_SLL_OFFSETP + VLAN_SIZE),
          reads |-> {LINUX_SLL_OFFSETP, LINUX_SLL_OFFSETP + 1}]
    ELSE [mem |-> mem, len |-> len, found |-> FALSE, rest_len |-> 0,
          reads |-> {LINUX_SLL_OFFSETP, LINUX_SLL_OFFSETP + 1}]

\* lines 566-576
remove_vlan_info(pkt_encap, mem, fd, len, junk) ==
    IF pkt_encap = WTAP_ENCAP_SLL
    THEN sll_remove_vlan_info(mem, fd, len, junk)
    ELSE [mem |-> mem, len |-> len, found |-> FALSE, rest_len |-> 0, reads |-> {}]

\* x after remove_vlan_info returned v
VlanRemoved(x, v) ==
    [x EXCEPT !.vlan = [ran |-> TRUE, found |-> v.found, rest_len |-> v.rest_len,
                        reads |-> v.reads, caplen |-> x.p.caplen,
                        buf |-> BytesAt(x.p.mem, x.p.start, x.p.caplen, x.p.junk)],
              !.p.mem = v.mem,
              !.p.caplen = v.len]

\* lines 1692-1699
StageVlan(x) ==
    IF x.emit /\ x.isp /\ rem_vlan
    THEN VlanRemoved(x, remove_vlan_info(x.rec.pkt_encap, x.p.mem, x.p.start,
                                         x.p.caplen, x.p.junk))
    ELSE x

\* x after a deduplicator returned d
Deduped(x, d) ==
    [x EXCEPT !.fd_hash = d.fd_hash, !.cur = d.cur, !.ran_dedup = TRUE,
              !.dup = d.dup, !.visited = d.visited]

\* lines 1701-1727
StageDup(x) ==
    IF x.emit /\ x.isp /\ dup_detect
    THEN Deduped(x, is_duplicate(x.fd_hash, x.cur, dup_window, ignored_bytes,
                                 x.p.mem, x.p.start, x.p.caplen, x.p.junk))
    ELSE x

\* lines 1729-1764
StageDupTime(x) ==
    IF x.emit /\ x.isp /\ ~x.dup /\ x.rec.has_ts /\ dup_detect_by_time
    THEN Deduped(x, is_duplicate_rel_time(x.fd_hash, x.cur, dup_window,
                                          ignored_bytes, relative_time_window,
                                          x.p.mem, x.p.start, x.p.caplen,
                                          x.ts, x.p.junk))
    ELSE x

\* the record wtap_dump is handed: the header fields as they stand and
\* caplen bytes at buf
Dumped(x) ==
    [x.rec EXCEPT !.caplen = x.p.caplen, !.len = x.p.len, !.ts = x.ts,
                  !.buf = BytesAt(x.p.mem, x.p.start, x.p.caplen, x.p.junk)]

(***************************************************************************)
(* Random error mutation.  err_prob is kept as a fraction num / den.  The  *)
(* generator is the seed srand was given, the sequence of values rand()    *)
(* returns for that seed (stream, repeated from its start when it ends)    *)
(* and the number of values rand() has returned.  m is the state of the    *)
(* loop at line 1811: the memory, where the packet starts, caplen, the     *)
(* index i, the stream and how many of its values were used, err_type,     *)
(* the outcomes applied to the byte at hand and, for every byte chosen,    *)
(* the selector and the outcomes.                                          *)
(***************************************************************************)
\* ALNUM_CHARS[k], as the code of the character
ALNUM_CHARS(k) ==
    IF k < 26 THEN 65 + k ELSE IF k < 52 THEN 97 + (k - 26) ELSE 48 + (k - 52)

\* the largest value of rand() that is <= err_prob * RAND_MAX
ErrThreshold(p) ==
    p.num * (RAND_MAX \div p.den) + (p.num * (RAND_MAX % p.den)) \div p.den

\* line 1812 with rand() = v
Chosen(v, p) == v <= ErrThreshold(p)

\* MutationOn with a probability of 0 passing the test
MutationOnFromZero(p) == p.num >= 0

\* line 1768: err_prob > 0.0
MutationOn(p) == p.num > 0

\* byte ^ (1 << b)
BitFlip(byte, b) ==
    IF (byte \div (2 ^ b)) % 2 = 1 THEN byte - 2 ^ b ELSE byte + 2 ^ b

\* the value the next call of rand() returns
Rand(m) ==
    IF Len(m.stream) = 0 THEN 0 ELSE m.stream[(m.used % Len(m.stream)) + 1]

\* rand() has returned
Drawn(m) == [m EXCEPT !.used = @ + 1]

\* lines 1817, 1824, 1831, 1839: err_type after an outcome was applied
Applied == ERR_WT_TOTAL

\* ErrBit that leaves err_type as it is after the bit was flipped
ErrBitNoReset(m) ==
    IF m.err_type < ERR_WT_BIT
    THEN [Drawn(m) EXCEPT !.mem[m.start + m.i] =
                              BitFlip(@, Rand(m) \div (RAND_MAX \div 8 + 1)),
                          !.kinds = Append(@, "bit")]
    ELSE [m EXCEPT !.err_type = @ - ERR_WT_BYTE]

\* lines 1815-1820
ErrBit(m) ==
    IF m.err_type < ERR_WT_BIT
    THEN [Drawn(m) EXCEPT !.mem[m.start + m.i] =
                              BitFlip(@, Rand(m) \div (RAND_MAX \div 8 + 1)),
                          !.err_type = Applied,
                          !.kinds = Append(@, "bit")]
    ELSE [m EXCEPT !.err_type = @ - ERR_WT_BYTE]

\* lines 1822-1827
ErrByte(m) ==
    IF m.err_type < ERR_WT_BYTE
    THEN [Drawn(m) EXCEPT !.mem[m.start + m.i] = Rand(m) \div (RAND_MAX \div 255 + 1),
                          !.err_type = Applied,
                          !.kinds = Append(@, "byte")]
    ELSE [m EXCEPT !.err_type = @ - ERR_WT_BYTE]

\* lines 1829-1834
ErrAlnum(m) ==
    IF m.err_type < ERR_WT_ALNUM
    THEN [Drawn(m) EXCEPT !.mem[m.start + m.i] =
                              ALNUM_CHARS(Rand(m) \div (RAND_MAX \div ALNUM_LEN + 1)),
                          !.err_type = Applied,
                          !.kinds = Append(@, "alnum")]
    ELSE [m EXCEPT !.err_type = @ - ERR_WT_ALNUM]

\* g_strlcpy(&buf[i], "%s", 2): '%' and the terminating NUL
StrlcpyFmt(m) ==
    [m EXCEPT !.mem = [a \in DOMAIN m.mem |->
                          IF a = m.start + m.i THEN 37
                          ELSE IF a = m.start + m.i + 1 THEN 0
                          ELSE @[a]]]

\* lines 1836-1842; caplen - 2 is a guint32
ErrFmt(m) ==
    IF m.err_type < ERR_WT_FMT
    THEN [(IF LtU32(m.i, m.caplen - 2) THEN StrlcpyFmt(m) ELSE m)
             EXCEPT !.err_type = Applied,
                    !.kinds = Append(@, "fmt")]
    ELSE [m EXCEPT !.err_type = @ - ERR_WT_FMT]

\* lines 1844-1849
ErrAA(m) ==
    IF m.err_type < ERR_WT_AA
    THEN [m EXCEPT !.mem = [a \in DOMAIN m.mem |->
                               IF m.start + m.i <= a /\ a < m.start + m.caplen
                               THEN 170 ELSE @[a]],
                   !.i = m.caplen,
                   !.kinds = Append(@, "aa")]
    ELSE m

\* line 1813: the byte at i was chosen and rand() gives the selector
Selected(m) ==
    [Drawn(m) EXCEPT !.err_type = Rand(m) \div (RAND_MAX \div ERR_WT_TOTAL + 1),
                     !.kinds = <<>>]

\* the outcomes applied to the byte chosen at m are entered in the log
Logged(m, s, e) ==
    [e EXCEPT !.log = Append(@, [i |-> m.i, r |-> s.err_type, applied |-> e.kinds])]

\* lines 1813-1849
Corrupt(m) ==
    Logged(m, Selected(m), ErrAA(ErrFmt(ErrAlnum(ErrByte(ErrBit(Selected(m)))))))

\* lines 1812-1850: the body of the loop for the byte at m.i
MutateByte(m) ==
    IF Chosen(Rand(m), err_prob) THEN Corrupt(Drawn(m)) ELSE Drawn(m)

RECURSIVE Mutate(_)
\* lines 1811-1851: the loop from m.i on
Mutate(m) ==
    IF m.i < m.caplen
    THEN Mutate([MutateByte(m) EXCEPT !.i = @ + 1])
    ELSE m

\* x after the loop ended in m
Mutated(x, m) ==
    [x EXCEPT !.p.mem = m.mem, !.gen.consumed = m.used, !.mutations = m.log,
              !.changed = {a - x.p.start : a \in {b \in DOMAIN m.mem : m.mem[b] # x.p.mem[b]}}]

RECURSIVE SkipString(_, _)
\* lines 1973, 1976-1982: for (; buf[n] != '\0'; n++), buf[n] of the code
\* being the (n + 1)-th byte of the sequence buf
SkipString(buf, n) ==
    IF buf[n + 1] # 0 THEN SkipString(buf, n + 1) ELSE n

\* lines 1968-1987
find_dct2000_real_data(buf) ==
    LET context == SkipString(buf, 0) + 1
        port == context + 1
        timestamp == SkipString(buf, port) + 1
        protocol == SkipString(buf, timestamp) + 1
        variant == SkipString(buf, protocol) + 1
        outhdr == SkipString(buf, variant) + 1
    IN  outhdr + 2

\* RealDataStart as the larger of the two
RealDataStartLarger(dct2000, buf, offset) ==
    LET n == IF dct2000 THEN find_dct2000_real_data(buf) ELSE 0
    IN  IF n > offset THEN n ELSE offset

\* lines 1797-1809: the index the loop starts at, dct2000 being whether the
\* input is a DCT2000 file
RealDataStart(dct2000, buf, offset) ==
    (IF dct2000 THEN find_dct2000_real_data(buf) ELSE 0) + offset

\* lines 1767-1851; the input of a run is no DCT2000 file
StageMutate(x) ==
    IF x.emit /\ ~x.dup /\ x.isp /\ MutationOn(err_prob)
       /\ ~LtU32(x.p.caplen, change_offset)
    THEN Mutated(x, Mutate([mem |-> x.p.mem, start |-> x.p.start,
                            caplen |-> x.p.caplen,
                            i |-> RealDataStart(FALSE, <<>>, change_offset),
                            stream |-> x.gen.stream, used |-> x.gen.consumed,
                            err_type |-> 0,
                            kinds |-> <<>>, log |-> <<>>]))
    ELSE x

\* lines 1437-1884 for the record rec that wtap_read returned, memory
\* outside the packet holding junk, up to the mutation
Staged(rec, junk, io) ==
    StageDupTime(StageDup(StageVlan(StageChop(StageSnap(StageTime(
        StageSplit(StageSelect(rec, junk, io))))))))

\* lines 1872-1882: wtap_dump
StageDump(x) ==
    IF x.emit /\ ~x.dup
    THEN [Output(x, "dump", DUMP_ERROR) EXCEPT !.written = ~(x.io.fails /\ x.io.after = 0)]
    ELSE x

\* the rest of the loop body, rand() being in the state gen
Pass(x, gen) == StageDump(StageMutate([x EXCEPT !.gen = gen]))

\* the output files when the run ends: lines 1896-1911 open one if none was
FinalSinks == IF sinks = <<>> THEN <<0>> ELSE sinks

\* lines 1887-1917: the loop is left, read_err whether wtap_read reported
\* an error; a message is all a read error causes
AfterLoop(read_err, io) ==
    LET noted == IF read_err THEN io_errors \cup {"read"} ELSE io_errors
        opens == IF sinks = <<>> THEN 1 ELSE 0
    IN  IF io.fails /\ io.after = 0 /\ opens = 1
        THEN /\ pc' = "exit"
             /\ ret' = INVALID_FILE
             /\ io_errors' = noted \cup {"open"}
             /\ UNCHANGED sinks
        ELSE IF io.fails /\ io.after = opens
        THEN /\ pc' = "exit"
             /\ ret' = WRITE_ERROR
             /\ io_errors' = noted \cup {"close"}
             /\ sinks' = FinalSinks
        ELSE /\ pc' = "done"
             /\ io_errors' = noted
             /\ sinks' = FinalSinks
             /\ UNCHANGED ret

\* the loop body has run on rec and left x, and y in the second run
Passed(rec, x, y) ==
    /\ read_count' = read_count + 1
    /\ count' = IF x.more \/ x.ret # 0 THEN count ELSE count + 1
    /\ written_count' = IF x.written THEN written_count + 1
                        ELSE written_count
    /\ duplicate_count' = IF x.dup THEN duplicate_count + 1 ELSE duplicate_count
    /\ fd_hash' = x.fd_hash
    /\ cur_dup_entry' = x.cur
    /\ infile' = Append(infile, rec)
    /\ outfile' = IF x.written THEN Append(outfile, Dumped(x)) ELSE outfile
    /\ last' = [recno |-> x.recno, rec |-> rec, emit |-> x.emit,
                ran_chop |-> x.emit /\ x.isp,
                before |-> [caplen |-> x.before.caplen, len |-> x.before.len],
                norm |-> x.norm,
                after |-> [caplen |-> x.p.caplen, len |-> x.p.len,
                           start |-> x.p.start, buf |-> Dumped(x).buf],
                ts_strict |-> x.ts_strict, ts |-> x.ts,
                dup |-> x.dup, written |-> x.written,
                mutations |-> x.mutations, changed |-> x.changed,
                block_before |-> BlockStarted([rec |-> rec,
                                               block_start |-> block_start]).block_start,
                block_start |-> x.block_start,
                rotations |-> x.rotations, more |-> x.more, vlan |-> x.vlan]
    /\ dedup_log' = IF x.ran_dedup
                    THEN Append(dedup_log,
                            [digest |-> x.fd_hash[x.cur].digest,
                             len |-> x.fd_hash[x.cur].len,
                             ts |-> x.ts,
                             dup |-> x.dup,
                             visited |-> x.visited])
                    ELSE dedup_log
    /\ previous_time' = x.previous_time
    /\ rand_state' = x.gen
    /\ twin' = [rand_state |-> y.gen,
                outfile |-> IF y.written THEN Append(twin.outfile, Dumped(y))
                            ELSE twin.outfile]
    /\ block_start' = x.block_start
    /\ sinks' = IF x.written
                THEN [x.sinks EXCEPT ![Len(x.sinks)] = @ + 1]
                ELSE x.sinks
    /\ pc' = IF x.ret # 0 THEN "exit" ELSE IF x.more THEN "rotating" ELSE pc
    /\ ret' = IF x.ret # 0 THEN x.ret ELSE ret
    /\ io_errors' = IF x.ret # 0 THEN io_errors \cup {x.failed} ELSE io_errors
    /\ UNCHANGED cmdline

\* the loop body has brought rec as far as the mutation, leaving x; the
\* second run, which differs in the generator alone, shares x
Mutation(rec, x) ==
    Passed(rec, Pass(x, rand_state), Pass(x, twin.rand_state))

\* one turn of the while loop at line 1431, wtap_read having returned rec,
\* and what follows the loop when the turn leaves it; io is how the calls
\* on the output file fare
LoopBody(rec, io) ==
    /\ pc = "reading"
    /\ IF LeqU32(max_packet_number, read_count)
       THEN /\ AfterLoop(FALSE, io)
            /\ infile' = Append(infile, rec)
            /\ UNCHANGED <<read_count, count, written_count, duplicate_count,
                           fd_hash, cur_dup_entry>>
            /\ UNCHANGED <<outfile, last, dedup_log, timerun, errrun, block_start,
                           cmdline>>
       ELSE \E junk \in Indeterminate : Mutation(rec, Staged(rec, junk, io))
    /\ UNCHANGED <<optvars, moreopts>>

\* LoopBody with an output file that takes every call
ReadLoop(rec) == LoopBody(rec, IoOkay)

\* wtap_read returns FALSE, with an error (read_err) or at the end of the
\* input
LoopEnd(read_err, io) ==
    /\ pc = "reading"
    /\ AfterLoop(read_err, io)
    /\ UNCHANGED <<read_count, count, written_count, duplicate_count,
                   fd_hash, cur_dup_entry>>
    /\ UNCHANGED <<optvars, obsvars, moreopts, timerun, errrun, block_start,
                   cmdline>>

\* the input has no further record, and the output file takes every call
EndOfFile == LoopEnd(FALSE, IoOkay)

(***************************************************************************)
(* Input records.                                                          *)
(***************************************************************************)
Rec(bytes, len, has_ts, ts) ==
    [rec_type |-> REC_TYPE_PACKET, pkt_encap |-> WTAP_ENCAP_ETHERNET,
     caplen |-> Len(bytes), len |-> len,
     has_ts |-> has_ts, ts |-> ts, buf |-> bytes]

(***************************************************************************)
(* Selection: -r and the selection arguments, no other option.             *)
(***************************************************************************)
SelNums == 0..MaxSelNum

SelArgs ==
    {SelArg(FALSE, f, 0) : f \in SelNums}
        \cup {SelArg(TRUE, f, s) : f \in SelNums, s \in SelNums}

RECURSIVE SeqsUpTo(_, _)
SeqsUpTo(S, n) ==
    IF n = 0 THEN {<<>>}
    ELSE LET shorter == SeqsUpTo(S, n - 1)
         IN  shorter \cup {Append(q, x) : q \in shorter, x \in S}

RecsSel ==
    {Rec(<<7>>, 1, TRUE, NsTime(1, 5)), Rec(<<8, 9>>, 4, FALSE, NSTIME_INIT_ZERO)}

StartSel ==
    pc = "options" /\ \E args \in SeqsUpTo(SelArgs, MaxSelArgs) : StartRun(args)

ReadSel == read_count < MaxSelPackets /\ \E rec \in RecsSel : ReadLoop(rec)

NextSel == OptR \/ StartSel \/ ReadSel \/ EndOfFile

SpecSel == Init /\ [][NextSel]_vars

\* Packet n is matched by selection item it: a single number matches that
\* number, a range first-second matches first..second, and a range whose
\* end was given as 0 has no upper end.
ItemMatches(it, n) ==
    IF it.inclusive
    THEN it.first <= n /\ (it.second = G_MAXUINT \/ n <= it.second)
    ELSE n = it.first

Matched(n) == \E i \in 1..Len(selectfrm) : ItemMatches(selectfrm[i], n)

\* the records among the first n of recs whose numbers are matched
RECURSIVE MatchedOf(_, _)
MatchedOf(recs, n) ==
    IF n = 0 THEN <<>>
    ELSE IF Matched(n) THEN Append(MatchedOf(recs, n - 1), recs[n])
    ELSE MatchedOf(recs, n - 1)

\* C1: in keep mode with selection ranges and no other option, when the run
\* is over the output holds exactly the input records whose numbers are
\* matched by some range, in input order and as they were read; when the
\* loop stopped before the end of the input (a record was read and not
\* processed), no record number from there on is matched.
C1_KeepOutputsMatched ==
    (pc = "done" /\ keep_em) =>
        /\ outfile = MatchedOf(infile, Len(infile))
        /\ Len(infile) > read_count =>
              \A n \in (read_count + 1)..(MaxSelNum + MaxSelPackets + 1) :
                  ~Matched(n)

C1_Witness ==
    /\ pc = "done" /\ keep_em
    /\ selectfrm = <<[inclusive |-> TRUE, first |-> 1, second |-> 2]>>
    /\ Len(infile) = 3 /\ read_count = 2
    /\ outfile = <<infile[1], infile[2]>>
    /\ infile[1] # infile[2]

\* C2: with no start/stop time, packet i goes on to the later stages iff
\* (i is matched by some range) equals the keep flag.
C2_EmitIffMatchedEqualsKeep ==
    last.recno > 0 => (last.emit = (Matched(last.recno) = keep_em))

C2_Witness ==
    /\ last.recno = 2 /\ ~keep_em /\ ~last.emit
    /\ selectfrm = <<[inclusive |-> FALSE, first |-> 2, second |-> 0],
                     [inclusive |-> TRUE, first |-> 1, second |-> 1]>>

(***************************************************************************)
(* Chopping: -C (repeated) and -L, one packet a run.                       *)
(***************************************************************************)
ChopNums == (0 - MaxChop)..MaxChop

\* a packet of n bytes, byte i (from 0) being i + 1
PositionBytes(n) == [i \in 1..n |-> i]

\* of each captured length, packets that report one byte, the captured
\* length and one byte more
RecsOfCaplen(n) ==
    {Rec(PositionBytes(n), l, TRUE, NsTime(1, 0)) : l \in {1, n, n + 1}}

RecsChop == UNION {RecsOfCaplen(n) : n \in 0..MaxCaplen}

OptCAny ==
    pc = "options" /\ \E chopoff \in ChopNums, choplen \in ChopNums :
                          OptC(chopoff, choplen)

\* no selection argument follows <infile> <outfile>
StartNoSelection == StartRun(<<>>)

ReadChop == read_count < MaxChopPackets /\ \E rec \in RecsChop : ReadLoop(rec)

NextChop == OptCAny \/ OptL \/ StartNoSelection \/ ReadChop \/ EndOfFile

SpecChop == Init /\ [][NextChop]_vars

\* handle_chopping ran in the last pass of the loop body
LastChopped == last.recno > 0 /\ last.ran_chop

\* what wtap_dump is handed after the last pass
LastBytes == last.after.buf

\* the last pass left the packet as it was read
LastUnchanged ==
    /\ last.after.caplen = last.before.caplen
    /\ last.after.len = last.before.len
    /\ LastBytes = last.rec.buf

\* The regions the command line asks for on a packet of n bytes, as sets of
\* byte indexes from 0: a front region of len_begin bytes from its offset
\* (a negative offset counts from the end), a back region of -len_end bytes
\* that ends at its offset from the end (a positive offset counts from the
\* start).
FrontOffset(n) ==
    IF chop.len_begin = 0 THEN 0
    ELSE chop.off_begin_pos + (IF chop.off_begin_neg < 0 THEN n + chop.off_begin_neg ELSE 0)

BackOffset(n) ==
    IF chop.len_end = 0 THEN 0
    ELSE chop.off_end_neg + (IF chop.off_end_pos > 0 THEN chop.off_end_pos - n ELSE 0)

FrontRegion(n) == FrontOffset(n)..(FrontOffset(n) + chop.len_begin - 1)

BackRegion(n) == (n + BackOffset(n) + chop.len_end)..(n + BackOffset(n) - 1)

\* the bytes of a packet of n position bytes at the indexes outside R, in order
RECURSIVE Outside(_, _)
Outside(n, R) ==
    IF n = 0 THEN <<>>
    ELSE IF (n - 1) \in R THEN Outside(n - 1, R)
    ELSE Append(Outside(n - 1, R), n)

\* the indexes of the packet read whose byte is not in what is written
LastRemoved ==
    {i \in 0..(last.before.caplen - 1) :
        \A k \in 1..Len(LastBytes) : LastBytes[k] # i + 1}

\* C3: for every chop specification and every packet, the captured length
\* after handle_chopping is >= 0 (as the int reading of the guint32: it did
\* not wrap) and <= the captured length before it.
C3_CaplenWithinBounds ==
    LastChopped =>
        /\ 0 <= last.after.caplen
        /\ last.after.caplen <= last.before.caplen

C3_Witness ==
    /\ LastChopped
    /\ chop.len_begin = 2 /\ chop.len_end = 0 - 2
    /\ last.before.caplen = 3
    /\ last.after.caplen = 0

\* C4: when the requested front region and back region both lie inside the
\* packet and do not overlap, what remains is the original bytes outside the
\* two regions in their order, and the captured length has gone down by the
\* number of bytes of the two regions; a front region at offset 0 is removed
\* by advancing the start of the buffer by its length.
C4_ChopRemovesExactlyRegions ==
    LET n == last.before.caplen
    IN  ( /\ LastChopped
          /\ FrontRegion(n) \subseteq 0..(n - 1)
          /\ BackRegion(n) \subseteq 0..(n - 1)
          /\ FrontRegion(n) \cap BackRegion(n) = {} )
        =>
        /\ LastBytes = Outside(n, FrontRegion(n) \cup BackRegion(n))
        /\ last.after.caplen =
               n - Cardinality(FrontRegion(n)) - Cardinality(BackRegion(n))
        /\ (chop.len_begin > 0 /\ FrontOffset(n) = 0) =>
               last.after.start = chop.len_begin

\* C5: for a request with both a front and a back region, the ranges the
\* front step and the back step remove (those of the normalized chop_t) are
\* disjoint with the front range first, and no byte outside the two
\* requested regions is removed.
C5_NormalizedDisjointWithinRequest ==
    LET n == last.before.caplen
        c == last.norm
        F == c.off_begin_pos..(c.off_begin_pos + c.len_begin - 1)
        B == (n + c.off_end_neg + c.len_end)..(n + c.off_end_neg - 1)
    IN  (LastChopped /\ chop.len_begin > 0 /\ chop.len_end < 0)
        =>
        /\ F \cap B = {}
        /\ \A i \in F, j \in B : i < j
        /\ LastRemoved \subseteq (FrontRegion(n) \cup BackRegion(n))

\* C6 as stated: when the requested front chop length exceeds the captured
\* length, the packet is left unchanged.
C6_Original_FrontTooLongUnchanged ==
    (LastChopped /\ chop.len_begin > last.before.caplen) => LastUnchanged

\* C6: for a request with a front region only whose length exceeds the
\* captured length n: when its offset lies inside the packet (0 <= off < n)
\* the length is clamped to n - off, so the packet is cut down to its first
\* off bytes (to empty when off = 0) and the reported length goes down by
\* n - off, not below 0, with -L; when the offset is outside the packet
\* (off < 0 or off >= n) the packet is left unchanged.
C6_FrontTooLongClampedOrUnchanged ==
    LET n   == last.before.caplen
        off == FrontOffset(n)
    IN  (LastChopped /\ chop.len_end = 0 /\ chop.len_begin > n)
        =>
        IF 0 <= off /\ off < n
        THEN /\ last.after.caplen = off
             /\ LastBytes = PositionBytes(off)
             /\ last.after.len =
                    IF adjlen
                    THEN (IF last.before.len > n - off
                          THEN last.before.len - (n - off) ELSE 0)
                    ELSE last.before.len
        ELSE LastUnchanged

C6_Witness ==
    /\ LastChopped
    /\ chop = [NoChop EXCEPT !.len_begin = 2]
    /\ last.before.caplen = 1 /\ last.rec.buf = <<1>>
    /\ last.after.caplen = 0 /\ LastBytes = <<>>

\* C7: with -L the reported length after chopping is max(0, reported length
\* before - bytes removed), the bytes removed being what the captured length
\* went down by; without -L the reported length is unchanged.
C7_ReportedLength ==
    LET removed == last.before.caplen - last.after.caplen
    IN  LastChopped =>
            last.after.len =
                IF adjlen
                THEN (IF last.before.len - removed > 0
                      THEN last.before.len - removed ELSE 0)
                ELSE last.before.len

C7_Witness ==
    /\ LastChopped /\ adjlen
    /\ last.before.caplen = 3 /\ last.before.len = 1
    /\ last.norm.len_begin = 1 /\ last.norm.len_end = 0 - 1
    /\ last.after.caplen = 1 /\ last.after.len = 0

(***************************************************************************)
(* Duplicate detection by packet window: -D and -I.                        *)
(***************************************************************************)
\* two packets that differ in their first byte only, and a shorter one
RecsDup ==
    {Rec(<<1, 5>>, 2, TRUE, NsTime(1, 0)), Rec(<<2, 5>>, 2, TRUE, NsTime(1, 0)),
     Rec(<<3>>, 1, TRUE, NsTime(1, 0))}

OptDAny ==
    pc = "options" /\ \E n \in 0..(MAX_DUP_DEPTH + 1) : OptD(n)

OptIAny ==
    pc = "options" /\ \E n \in 0..MaxIgnored : OptI(n)

ReadDup == read_count < MaxDupPackets /\ \E rec \in RecsDup : ReadLoop(rec)

NextDup == OptDAny \/ OptIAny \/ StartNoSelection \/ ReadDup \/ EndOfFile

SpecDup == Init /\ [][NextDup]_vars

\* C26: with -D 0 no packet is reported or dropped as a duplicate, whatever
\* the input: every packet read is handed to the deduplicator, answered
\* "no duplicate" and written.
C26_WindowZeroNeverDuplicate ==
    (dup_detect /\ dup_window = 0) =>
        /\ duplicate_count = 0
        /\ written_count = read_count
        /\ Len(dedup_log) = read_count
        /\ \A k \in 1..Len(dedup_log) : ~dedup_log[k].dup

\* -D 0 and the same packet read twice and written twice
C26_Witness ==
    /\ dup_detect
    /\ dup_window = 0
    /\ read_count = 2
    /\ infile[1] = infile[2]
    /\ outfile = infile
    /\ dedup_log[1].digest = dedup_log[2].digest

(***************************************************************************)
(* Duplicate detection by time window: -w.                                 *)
(***************************************************************************)
Windows == {NsTime(0, 0), NsTime(0, 1), NsTime(1, 0)}

Stamps == {NsTime(1, 0), NsTime(1, ONE_BILLION - 1), NsTime(2, 0), NsTime(2, 1)}

\* two packets at each of the time stamps, and one that has no time stamp
RecsDupTime ==
    {Rec(b, 1, TRUE, t) : b \in {<<7>>, <<8>>}, t \in Stamps}
        \cup {Rec(<<7>>, 1, FALSE, NSTIME_INIT_ZERO)}

OptWAny ==
    pc = "options" /\ \E t \in Windows : OptW(t)

ReadDupTime ==
    read_count < MaxDupPackets /\ \E rec \in RecsDupTime : ReadLoop(rec)

NextDupTime == OptWAny \/ StartNoSelection \/ ReadDupTime \/ EndOfFile

SpecDupTime == Init /\ [][NextDupTime]_vars

\* two packets the deduplicator was given have the same fingerprint
SameFingerprint(a, b) == a.len = b.len /\ a.digest = b.digest

\* when packet j is given to the deduplicator, the ring still holds packet i
Cached(i, j) == i < j /\ j - i <= dup_window - 1

\* time stamps, compared and added field by field
TimeLeq(a, b) == a.secs < b.secs \/ (a.secs = b.secs /\ a.nsecs <= b.nsecs)

TimePlus(a, w) ==
    IF a.nsecs + w.nsecs >= ONE_BILLION
    THEN NsTime(a.secs + w.secs + 1, a.nsecs + w.nsecs - ONE_BILLION)
    ELSE NsTime(a.secs + w.secs, a.nsecs + w.nsecs)

\* 0 <= cur - e <= relative_time_window
WithinWindow(e, cur) ==
    TimeLeq(e, cur) /\ TimeLeq(cur, TimePlus(e, relative_time_window))

\* cur - e = relative_time_window + 1 ns
JustBeyondWindow(e, cur) ==
    cur = TimePlus(TimePlus(e, relative_time_window), NsTime(0, 1))

NonDecreasingLog ==
    \A i \in 1..(Len(dedup_log) - 1) :
        TimeLeq(dedup_log[i].ts, dedup_log[i + 1].ts)

\* C8: with -D W, a packet given to the deduplicator is reported duplicate
\* when a packet of the same fingerprint lies with it within W consecutive
\* packets given to the deduplicator, and is not reported duplicate when at
\* least W packets, none of its fingerprint, were given to the deduplicator
\* between it and an earlier packet of its fingerprint.
C8_ContentWindow ==
    dup_detect =>
        \A j \in 1..Len(dedup_log) :
            /\ (\E i \in 1..(j - 1) :
                    /\ j - i + 1 <= dup_window
                    /\ SameFingerprint(dedup_log[i], dedup_log[j]))
               => dedup_log[j].dup
            /\ (\E i \in 1..(j - 1) :
                    /\ j - i - 1 >= dup_window
                    /\ SameFingerprint(dedup_log[i], dedup_log[j])
                    /\ \A k \in (i + 1)..(j - 1) :
                           ~SameFingerprint(dedup_log[k], dedup_log[j]))
               => ~dedup_log[j].dup

C8_Witness ==
    /\ dup_detect /\ dup_window = 2 /\ ignored_bytes = 1
    /\ Len(infile) = 4 /\ Len(dedup_log) = 4
    /\ infile[1].buf = <<1, 5>> /\ infile[2].buf = <<2, 5>>
    /\ infile[3].buf = <<3>> /\ infile[4].buf = <<1, 5>>
    /\ dedup_log[2].dup /\ ~dedup_log[3].dup /\ ~dedup_log[4].dup
    /\ Len(outfile) = 3

\* C9: with -w, on a run whose time stamps never go back, a packet is
\* reported duplicate when a packet still in the ring has its fingerprint
\* and is earlier by the window or less, and is not reported duplicate when
\* a packet still in the ring has its fingerprint and is earlier by the
\* window and one nanosecond, and no other packet in the ring has its
\* fingerprint.
C9_TimeWindowBoundary ==
    (dup_detect_by_time /\ NonDecreasingLog) =>
        \A j \in 1..Len(dedup_log) :
            /\ (\E i \in 1..(j - 1) :
                    /\ Cached(i, j)
                    /\ SameFingerprint(dedup_log[i], dedup_log[j])
                    /\ WithinWindow(dedup_log[i].ts, dedup_log[j].ts))
               => dedup_log[j].dup
            /\ (\E i \in 1..(j - 1) :
                    /\ Cached(i, j)
                    /\ SameFingerprint(dedup_log[i], dedup_log[j])
                    /\ JustBeyondWindow(dedup_log[i].ts, dedup_log[j].ts)
                    /\ \A k \in 1..(j - 1) :
                           (Cached(k, j) /\ k # i) =>
                               ~SameFingerprint(dedup_log[k], dedup_log[j]))
               => ~dedup_log[j].dup

C9_Witness ==
    /\ dup_detect_by_time /\ relative_time_window = NsTime(1, 0)
    /\ NonDecreasingLog /\ Len(dedup_log) = 4
    /\ infile = <<Rec(<<8>>, 1, TRUE, NsTime(1, 0)), Rec(<<7>>, 1, TRUE, NsTime(1, 0)),
                  Rec(<<8>>, 1, TRUE, NsTime(2, 0)), Rec(<<7>>, 1, TRUE, NsTime(2, 1))>>
    /\ dedup_log[3].dup /\ ~dedup_log[4].dup

\* C10: with -w and time stamps in any order, a packet is reported duplicate
\* only if an earlier packet of the run has its captured length and digest
\* and a time stamp with 0 <= current - earlier <= window; and a scan looks
\* at no more than capacity - 1 slots of the ring.
C10_NoFalseDuplicate ==
    dup_detect_by_time =>
        \A j \in 1..Len(dedup_log) :
            /\ dedup_log[j].dup =>
                   \E i \in 1..(j - 1) :
                       /\ SameFingerprint(dedup_log[i], dedup_log[j])
                       /\ WithinWindow(dedup_log[i].ts, dedup_log[j].ts)
            /\ dedup_log[j].visited <= dup_window - 1

C10_Witness ==
    /\ dup_detect_by_time /\ relative_time_window = NsTime(0, 1)
    /\ Len(dedup_log) = 4
    /\ infile = <<Rec(<<7>>, 1, TRUE, NsTime(1, ONE_BILLION - 1)),
                  Rec(<<8>>, 1, TRUE, NsTime(2, 1)),
                  Rec(<<7>>, 1, TRUE, NsTime(2, 0)),
                  Rec(<<7>>, 1, TRUE, NsTime(1, 0))>>
    /\ dedup_log[3].dup /\ dedup_log[3].visited = 2
    /\ ~dedup_log[4].dup /\ dedup_log[4].visited = dup_window - 1

\* packet i, given to the deduplicator before packet j, has a later time
\* stamp: the delta of line 697 is negative
LaterThan(i, j) == ~TimeLeq(dedup_log[i].ts, dedup_log[j].ts)

\* C29: in the walk back through the ring a cached packet later than the
\* current one is skipped and the walk goes on: a packet is reported
\* duplicate when the ring holds a packet of its fingerprint with
\* 0 <= current - cached <= window behind one or more cached packets that
\* are all later than the current one.
C29_NegativeDeltaSkipped ==
    dup_detect_by_time =>
        \A j \in 1..Len(dedup_log) :
            \A k \in 2..(dup_window - 1) :
                (/\ j - k >= 1
                 /\ SameFingerprint(dedup_log[j - k], dedup_log[j])
                 /\ WithinWindow(dedup_log[j - k].ts, dedup_log[j].ts)
                 /\ \A m \in 1..(k - 1) : LaterThan(j - m, j))
                    => dedup_log[j].dup

\* the third packet is found duplicate of the first, the second being of
\* another fingerprint and later than the third
C29_Witness ==
    /\ dup_detect_by_time
    /\ Len(dedup_log) >= 3
    /\ LaterThan(2, 3)
    /\ ~SameFingerprint(dedup_log[2], dedup_log[3])
    /\ SameFingerprint(dedup_log[1], dedup_log[3])
    /\ WithinWindow(dedup_log[1].ts, dedup_log[3].ts)
    /\ dedup_log[3].dup
    /\ dedup_log[3].visited = 2

(***************************************************************************)
(* Time adjustment: -S and -t.                                             *)
(***************************************************************************)
TimeArg(ok, neg, secs, frac, nsecs) ==
    [ok |-> ok, neg |-> neg, secs |-> secs, frac |-> frac, nsecs |-> nsecs]

\* "0", "1", "0.000001", "0.999999999", each with and without '-', and an
\* argument that is no number
StrictArgs ==
    {TimeArg(TRUE, neg, 0, FALSE, 0) : neg \in BOOLEAN}
        \cup {TimeArg(TRUE, neg, 1, FALSE, 0) : neg \in BOOLEAN}
        \cup {TimeArg(TRUE, neg, 0, TRUE, 1000) : neg \in BOOLEAN}
        \cup {TimeArg(TRUE, neg, 0, TRUE, ONE_BILLION - 1) : neg \in BOOLEAN}
        \cup {TimeArg(FALSE, FALSE, 0, FALSE, 0)}

\* "1", "0.2", "0.999999999", each with and without '-', and an argument
\* that is no number
ShiftArgs ==
    {TimeArg(TRUE, neg, 1, FALSE, 0) : neg \in BOOLEAN}
        \cup {TimeArg(TRUE, neg, 0, TRUE, 200000000) : neg \in BOOLEAN}
        \cup {TimeArg(TRUE, neg, 0, TRUE, ONE_BILLION - 1) : neg \in BOOLEAN}
        \cup {TimeArg(FALSE, FALSE, 0, FALSE, 0)}

RecsTime ==
    {Rec(<<7>>, 1, TRUE, t) :
        t \in {NsTime(0, 0), NsTime(1, 0), NsTime(5, 0), NsTime(5, 900000000)}}
        \cup {Rec(<<7>>, 1, FALSE, NSTIME_INIT_ZERO)}

OptSAny == pc = "options" /\ \E arg \in StrictArgs : OptS(arg)

OptTAny == pc = "options" /\ \E arg \in ShiftArgs : OptT(arg)

ReadTime == read_count < MaxTimePackets /\ \E rec \in RecsTime : ReadLoop(rec)

NextTime == OptSAny \/ OptTAny \/ StartNoSelection \/ ReadTime \/ EndOfFile

SpecTime == Init /\ [][NextTime]_vars

\* the records of recs that have a time stamp, in order
RECURSIVE Stamped(_)
Stamped(recs) ==
    IF recs = <<>> THEN <<>>
    ELSE IF Head(recs).has_ts THEN <<Head(recs)>> \o Stamped(Tail(recs))
    ELSE Stamped(Tail(recs))

\* t + k * d
RECURSIVE TimePlusTimes(_, _, _)
TimePlusTimes(t, k, d) ==
    IF k = 0 THEN t ELSE TimePlus(TimePlusTimes(t, k - 1, d), d)

\* C11: with -S d, d not negative, the time stamps of the packets written
\* never go back: each written packet that has a time stamp is written with
\* one not earlier than that of the written packet with a time stamp before
\* it.
C11_StrictNeverEarlier ==
    (do_strict_time_adjustment /\ strict_time_adj.is_negative = 0) =>
        \A k \in 1..(Len(Stamped(outfile)) - 1) :
            TimeLeq(Stamped(outfile)[k].ts, Stamped(outfile)[k + 1].ts)

C11_Witness ==
    /\ do_strict_time_adjustment
    /\ strict_time_adj = TimeAdjustment(NsTime(0, ONE_BILLION - 1), 0)
    /\ time_adj = NoTimeAdjustment
    /\ Len(infile) = 3
    /\ infile[1].ts = NsTime(5, 900000000) /\ infile[2].ts = NsTime(5, 0)
    /\ infile[3].ts = NsTime(1, 0)
    /\ Len(outfile) = 3
    /\ outfile[2].ts = NsTime(6, 899999999) /\ outfile[3].ts = NsTime(7, 899999998)

\* C12: with -S -d and no -t, whatever the time stamps read, the k-th
\* written packet that has a time stamp (k = 0, 1, 2, ...) is written with
\* t0 + k * d, t0 being the time stamp of the first of them as it was read.
C12_ForcedStrictSpacing ==
    (do_strict_time_adjustment /\ strict_time_adj.is_negative # 0
        /\ time_adj = NoTimeAdjustment)
    =>
    \A k \in 1..Len(Stamped(outfile)) :
        Stamped(outfile)[k].ts =
            TimePlusTimes(Stamped(infile)[1].ts, k - 1, strict_time_adj.tv)

\* C13: -t (sign, S, N) turns the time stamp (s, n) into (s', n') with
\* 0 <= n' < 1e9 and s' * 1e9 + n' = s * 1e9 + n +/- (S * 1e9 + N): the
\* nanoseconds differ by N, with a carry into or a borrow from the seconds
\* when that leaves [0, 1e9).
C13_FixedShiftExact ==
    LET s == last.ts_strict.secs
        n == last.ts_strict.nsecs
        S == time_adj.tv.secs
        N == time_adj.tv.nsecs
    IN  (last.recno > 0 /\ last.emit /\ last.rec.has_ts) =>
            /\ 0 <= last.ts.nsecs /\ last.ts.nsecs < ONE_BILLION
            /\ IF time_adj.is_negative # 0
               THEN \/ last.ts = NsTime(s - S, n - N)
                    \/ last.ts = NsTime(s - S - 1, n - N + ONE_BILLION)
               ELSE \/ last.ts = NsTime(s + S, n + N)
                    \/ last.ts = NsTime(s + S + 1, n + N - ONE_BILLION)

C13_Witness ==
    /\ last.recno > 0 /\ last.emit /\ last.rec.has_ts
    /\ time_adj = TimeAdjustment(NsTime(0, 200000000), 0)
    /\ last.ts_strict = NsTime(5, 900000000)
    /\ last.ts = NsTime(6, 100000000)



(***************************************************************************)
(* Error injection: -E, -o and --seed.                                     *)
(***************************************************************************)
\* an argument of -E or --seed
Arg(ok, value) == [ok |-> ok, value |-> value]

\* "0", "0.5", "1", "1.5" and "x", of which strtod consumes nothing
ErrArgs ==
    {Arg(TRUE, Prob(0, 1)), Arg(TRUE, Prob(1, 2)), Arg(TRUE, Prob(1, 1)),
     Arg(TRUE, Prob(3, 2)), Arg(FALSE, Prob(0, 1))}

OffsetArgs == {0, 2}

\* "1", "2" and "x"
SeedArgs == {Arg(TRUE, 1), Arg(TRUE, 2), Arg(FALSE, 0)}

RecsErr ==
    {Rec(<<1>>, 1, TRUE, NsTime(1, 0)), Rec(<<1, 2, 3>>, 3, TRUE, NsTime(1, 0))}

OptEAny == pc = "options" /\ \E arg \in ErrArgs : OptE(arg)

OptOAny == pc = "options" /\ \E n \in OffsetArgs : OptO(n)

OptSeedAny == pc = "options" /\ \E arg \in SeedArgs : OptSeed(arg)

ReadErr == read_count < MaxErrPackets /\ \E rec \in RecsErr : ReadLoop(rec)

NextErr ==
    OptEAny \/ OptOAny \/ OptSeedAny \/ StartNoSelection \/ ReadErr \/ EndOfFile

SpecErr == Init /\ [][NextErr]_vars

\* the last pass of the loop body wrote its record
LastWritten == last # NoLast /\ last.written

\* C14: with an error probability of 0, or with no -E at all, the mutation
\* stage changes no byte of the buffer of any packet, whatever the seed and
\* the change offset, and calls rand() for none.
C14_NoMutationAtZero ==
    (LastWritten /\ err_prob.num <= 0) =>
        (last.changed = {} /\ last.mutations = <<>> /\ last.after.buf = last.rec.buf
         /\ rand_state.consumed = 0)

\* a packet was written under -E 0 with a seed and a change offset given
C14_Witness ==
    /\ LastWritten
    /\ err_prob = Prob(0, 1)
    /\ valid_seed
    /\ change_offset # 0
    /\ rand_state.seeded
    /\ last.after.buf = last.rec.buf


TableOutcome(r) ==
    IF r < 5 THEN "bit"
    ELSE IF r < 10 THEN "byte"
    ELSE IF r < 15 THEN "alnum"
    ELSE IF r < 17 THEN "fmt"
    ELSE "aa"

\* the first byte the last pass chose was the one at i, with selector r
ChoseFirst(i, r) ==
    /\ LastWritten
    /\ Len(last.mutations) >= 1
    /\ last.mutations[1].i = i
    /\ last.mutations[1].r = r

\* C16: every byte chosen for corruption gets the one outcome that the table
\* of cumulative weights gives for its selector r in 0..17, and no other;
\* after "fill the rest" no further byte is looked at, and every byte from
\* the chosen one to the end of the packet is 0xAA.
C16_OneOutcomePerSelector ==
    LastWritten =>
        \A k \in 1..Len(last.mutations) :
            /\ last.mutations[k].r \in 0..17
            /\ last.mutations[k].applied = <<TableOutcome(last.mutations[k].r)>>
            /\ last.mutations[k].r = 17 =>
                   /\ k = Len(last.mutations)
                   /\ \A j \in 1..last.after.caplen :
                          j > last.mutations[k].i => last.after.buf[j] = 170

\* the first byte of a packet of three was chosen with selector 15, and the
\* format string was written over it and the byte after it
C16_Witness ==
    /\ ChoseFirst(0, 15)
    /\ last.mutations[1].applied = <<"fmt">>
    /\ last.after.caplen = 3
    /\ last.after.buf[1] = 37
    /\ last.after.buf[2] = 0


(***************************************************************************)
(* Splitting the output: -c and -i, with packets deleted by selection and  *)
(* dropped as duplicates.                                                  *)
(***************************************************************************)
\* no selection, "2", "2-3"
SplitSelArgs == {<<>>, <<SelArg(FALSE, 2, 0)>>, <<SelArg(TRUE, 2, 3)>>}

\* time stamps within a block of one or two seconds from (10, 500), on its
\* end, beyond it and before its start, a record without time stamp, and a
\* record of other bytes
RecsSplit ==
    {Rec(<<1>>, 1, TRUE, NsTime(10, 500)), Rec(<<1>>, 1, TRUE, NsTime(11, 499)),
     Rec(<<1>>, 1, TRUE, NsTime(11, 500)), Rec(<<1>>, 1, TRUE, NsTime(12, 500)),
     Rec(<<1>>, 1, TRUE, NsTime(10, 0)), Rec(<<1>>, 1, TRUE, NsTime(9, 0)),
     Rec(<<1>>, 1, FALSE, NsTime(0, 0)), Rec(<<2>>, 1, TRUE, NsTime(10, 500))}

OptSplitCountAny == pc = "options" /\ \E n \in 1..MaxSplit : OptSplitCount(n)

OptSplitTimeAny == pc = "options" /\ \E n \in 1..MaxSplit : OptSplitTime(n)

\* -D 1
OptDOne == OptD(1)

StartSplit == pc = "options" /\ \E args \in SplitSelArgs : StartRun(args)

ReadSplit == read_count < MaxSplitPackets /\ \E rec \in RecsSplit : ReadLoop(rec)

NextSplit ==
    \/ OptSplitCountAny
    \/ OptSplitTimeAny
    \/ OptDOne
    \/ StartSplit
    \/ ReadSplit
    \/ EndOfFile

SpecSplit == Init /\ [][NextSplit]_vars

\* C17: with -c N, a record read closes the output file and opens the next
\* one only when N more packets have been written and this record is itself
\* written; every file closed that way holds N packets, no file holds more,
\* and none is closed empty, whatever records are deleted by selection or
\* dropped as duplicates in between.
C17_CountSplitExact ==
    (split_packet_count # 0 /\ pc \in {"reading", "done"}) =>
        /\ \A k \in 1..Len(sinks) :
               /\ sinks[k] <= split_packet_count
               /\ k < Len(sinks) => sinks[k] = split_packet_count
        /\ (last # NoLast /\ last.rotations > 0) =>
               (last.rotations = 1 /\ last.written)

\* the end of the block that starts at b
BlockEnd(b) == NsTime(b.secs + secs_per_block, b.nsecs)

\* C18: with -i T, a record with a time stamp closes the output file only if
\* its time stamp is at or after block_start + T, also when the time stamp
\* is before block_start; and once the rotation is done the time stamp is
\* before block_start + T of the block then current.
C18_TimeSplitBoundary ==
    (secs_per_block # 0 /\ last # NoLast /\ last.rec.has_ts) =>
        /\ last.rotations > 0 => TimeLeq(BlockEnd(last.block_before), last.rec.ts)
        /\ ~last.more => ~TimeLeq(BlockEnd(last.block_start), last.rec.ts)


(***************************************************************************)
(* Configurations that contradict themselves: -c with -i,                  *)
(* --skip-radiotap-header with -I, -A after -B.                            *)
(***************************************************************************)
\* two times mktime returns, and an argument strptime does not take
StartArgs == {Arg(TRUE, 5), Arg(TRUE, 20), Arg(FALSE, 0)}

StopArgs == {Arg(TRUE, 10), Arg(FALSE, 0)}

\* records inside and outside the times of StartArgs and StopArgs, one
\* stamped at the stop time of line 1356, and one without time stamp
RecsConfig ==
    {Rec(<<1>>, 1, TRUE, NsTime(7, 0)), Rec(<<2>>, 1, TRUE, NsTime(12, 0)),
     Rec(<<3>>, 1, TRUE, NsTime(DefaultStopTime, 0)),
     Rec(<<4>>, 1, FALSE, NsTime(0, 0))}

OptAAny == pc = "options" /\ \E arg \in StartArgs : OptA(arg)

OptBAny == pc = "options" /\ \E arg \in StopArgs : OptB(arg)

ReadConfig == read_count < MaxConfigPackets /\ \E rec \in RecsConfig : ReadLoop(rec)

NextConfig ==
    \/ OptSplitCountAny
    \/ OptSplitTimeAny
    \/ OptAAny
    \/ OptBAny
    \/ OptSkipRadiotap
    \/ OptIAny
    \/ StartNoSelection
    \/ ReadConfig
    \/ EndOfFile

SpecConfig == Init /\ [][NextConfig]_vars

\* no record was read and no output file opened
NothingProcessed ==
    /\ read_count = 0
    /\ written_count = 0
    /\ infile = <<>>
    /\ outfile = <<>>
    /\ sinks = <<>>

C23_TimeFilter ==
    (check_startstop /\ last # NoLast /\ ~last.more) =>
        /\ last.written =>
               /\ last.rec.has_ts
               /\ last.rec.ts.secs >= starttime
               /\ last.rec.ts.secs < stoptime
        /\ ~last.rec.has_ts => ~last.written
        /\ (stoptime = DefaultStopTime /\ last.rec.has_ts
                /\ last.rec.ts.secs >= starttime) => last.written

(***************************************************************************)
(* More selection arguments than selectfrm[] has room for.                 *)
(***************************************************************************)
\* n times "1" and then "2"
ManySelections(n) ==
    [i \in 1..(n + 1) |-> IF i <= n THEN SelArg(FALSE, 1, 0) ELSE SelArg(FALSE, 2, 0)]

StartMany ==
    /\ pc = "options"
    /\ \E n \in {MAX_SELECTIONS - 2, MAX_SELECTIONS - 1, MAX_SELECTIONS} :
           StartRun(ManySelections(n))

RecsMany == {Rec(<<1>>, 1, TRUE, NsTime(1, 0)), Rec(<<2>>, 1, TRUE, NsTime(1, 0))}

ReadMany == read_count < MaxConfigPackets + 1 /\ \E rec \in RecsMany : ReadLoop(rec)

NextMany == OptR \/ StartMany \/ ReadMany \/ EndOfFile

SpecMany == Init /\ [][NextMany]_vars

\* C20: a command line with more than 512 selection arguments ends before
\* the read loop with an exit code other than 0, no record read or written.
C20_TooManySelectionsRejected ==
    (nselections > MAX_SELECTIONS) =>
        /\ pc = "exit"
        /\ ret # 0
        /\ NothingProcessed



(***************************************************************************)
(* Failures of the input and output files: wtap_open_offline, wtap_read,   *)
(* editcap_dump_open, wtap_dump and wtap_dump_close may each fail.         *)
(***************************************************************************)
MaxIoPackets == 2
\* most characters in a text field of a DCT2000 record
MaxDctField == 1

MaxIoOps == 3

\* every call succeeds, or one of the first MaxIoOps + 1 calls fails
IoOutcomes == {IoOkay} \cup {IoFailsAfter(n) : n \in 0..MaxIoOps}

\* two packets more than a second apart
RecsIo == {Rec(<<1>>, 1, TRUE, NsTime(10, 500)), Rec(<<1>>, 1, TRUE, NsTime(12, 500))}

\* -c 1
OptSplitCountOne == OptSplitCount(1)

\* -i 1
OptSplitTimeOne == OptSplitTime(1)

\* -D 1 and -D with a window above MAX_DUP_DEPTH
OptDIo == pc = "options" /\ \E n \in {1, MAX_DUP_DEPTH + 1} : OptD(n)

StartIo == pc = "options" /\ \E opened \in BOOLEAN : BeforeLoop(<<>>, opened)

ReadIo ==
    /\ read_count < MaxIoPackets
    /\ pc = "reading"
    /\ \E rec \in RecsIo, io \in IoOutcomes : LoopBody(rec, io)

EndIo == pc = "reading" /\ \E read_err \in BOOLEAN, io \in IoOutcomes : LoopEnd(read_err, io)

NextIo ==
    \/ OptSplitCountOne
    \/ OptSplitTimeOne
    \/ OptDIo
    \/ StartIo
    \/ ReadIo
    \/ EndIo

SpecIo == Init /\ [][NextIo]_vars

\* C21: once a call on the input or output file has failed (the open of the
\* input, the read of a record, the open, write or close of an output
\* file), no further packet is processed and the exit status of the process
\* is not zero.
C21_IoFailureStopsNonZero ==
    io_errors # {} => (pc \in {"exit", "done"} /\ ret # 0)

\* the run was ended by the command line: an option argument or a
\* combination of options was rejected
BadArguments == pc = "exit" /\ io_errors = {}

\* the run was ended by an input or output file that cannot be opened
FileFailure == pc = "exit" /\ io_errors \cap {"open", "prefix"} # {}

\* the run was ended by a record that cannot be written or an output file
\* that cannot be closed
WriteFailure == pc = "exit" /\ io_errors \cap {"dump", "close"} # {}

\* C22: the exit code tells the three classes of failure apart: a run ended
\* by bad arguments, one ended by a file that cannot be opened and one ended
\* by a write or close error leave with exit codes that are not zero and
\* differ from class to class.
C22_ExitCodesDistinguishClasses ==
    pc = "exit" =>
        /\ ret # 0
        /\ BadArguments <=> ret = INVALID_OPTION
        /\ FileFailure <=> ret \in {INVALID_FILE, CANT_EXTRACT_PREFIX}
        /\ WriteFailure <=> ret \in {WRITE_ERROR, DUMP_ERROR}


(***************************************************************************)
(* The duplicate-detection options -d, -D and -w in any order and number.  *)
(* The ring of the model has fewer slots than the window of -d, so a run   *)
(* whose window is that of -d is followed up to the read loop only.        *)
(***************************************************************************)
\* set_rel_time fails before it has stored anything (messages 1 and 2) or
\* after it has stored the seconds (message 3)
OptWInvalidAny ==
    /\ pc = "options"
    /\ \E t \in {relative_time_window, [relative_time_window EXCEPT !.secs = 1]} :
           OptWInvalid(t)

ReadDupOpts ==
    /\ read_count < MaxConfigPackets
    /\ dup_window <= MAX_DUP_DEPTH
    /\ \E rec \in RecsDupTime : ReadLoop(rec)

NextDupOpts ==
    \/ OptDupDefault
    \/ OptDAny
    \/ OptWAny
    \/ OptWInvalidAny
    \/ StartNoSelection
    \/ ReadDupOpts
    \/ EndOfFile

SpecDupOpts == Init /\ [][NextDupOpts]_vars

\* a step of -d or -D
ContentOption == OptDupDefault \/ OptDAny

\* a step of -w
TimeOption == OptWAny \/ OptWInvalidAny

\* C24: after any sequence of -d, -D n and -w t the content-window and the
\* time-window duplicate detection are never both active, the last of these
\* options decides which one is, and while the time-window detection is
\* active dup_window is MAX_DUP_DEPTH.
C24_OneDedupVariant ==
    /\ [](~(dup_detect /\ dup_detect_by_time))
    /\ [](dup_detect_by_time => dup_window = MAX_DUP_DEPTH)
    /\ [][(ContentOption => (dup_detect' /\ ~dup_detect_by_time'))
            /\ (TimeOption => (dup_detect_by_time' /\ ~dup_detect'))]_vars

\* -d was given after -w 1: the content window is active with the window of
\* -d, the time window of -w still stored
C24_Witness ==
    /\ pc = "reading"
    /\ dup_detect
    /\ ~dup_detect_by_time
    /\ dup_window = DEFAULT_DUP_DEPTH
    /\ relative_time_window = NsTime(1, 0)


(***************************************************************************)
(* -D with any 32-bit window.  get_guint32 returns a guint32 and           *)
(* dup_window is an int: a value of 2^31 or more is stored as the negative *)
(* int of the same 32 bits.                                                *)
(***************************************************************************)
\* 0, 1, MAX_DUP_DEPTH, the value above it, 2^31 - 1, 2^31 and 2^32 - 1
DupWindowArgs ==
    {0, 1, MAX_DUP_DEPTH, MAX_DUP_DEPTH + 1, G_MAXINT, (0 - G_MAXINT) - 1, G_MAXUINT}

OptDWide == pc = "options" /\ \E n \in DupWindowArgs : OptD(n)

ReadDupWide == read_count < MaxConfigPackets /\ \E rec \in RecsDup : ReadLoop(rec)

NextDupWide == OptDWide \/ StartNoSelection \/ ReadDupWide \/ EndOfFile

SpecDupWide == Init /\ [][NextDupWide]_vars

\* C25: whatever 32-bit value -D is given, the run is ended with
\* INVALID_OPTION or dup_window is stored with 0 <= dup_window <=
\* MAX_DUP_DEPTH, and cur_dup_entry is always the index of a slot of
\* fd_hash[].
C25_WindowInRange ==
    /\ dup_detect =>
           \/ pc = "exit" /\ ret = INVALID_OPTION
           \/ 0 <= dup_window /\ dup_window <= MAX_DUP_DEPTH
    /\ cur_dup_entry \in DOMAIN fd_hash


(***************************************************************************)
(* Time adjustment together with duplicate detection and selection: -S and *)
(* -t with -D, -w and a selection argument.                                *)
(***************************************************************************)
\* -w 1
OptWOne == OptW(NsTime(1, 0))

\* -D 2
OptDTwo == OptD(2)

\* -S 1 and -S -1
OptSOne == pc = "options" /\ \E neg \in BOOLEAN : OptS(TimeArg(TRUE, neg, 1, FALSE, 0))

\* -t 1 and -t 0.2
OptTSome ==
    /\ pc = "options"
    /\ \E arg \in {TimeArg(TRUE, FALSE, 1, FALSE, 0), TimeArg(TRUE, FALSE, 0, TRUE, 200000000)} :
           OptT(arg)

\* no selection, and "2"
StartAdjDup == pc = "options" /\ \E args \in {<<>>, <<SelArg(FALSE, 2, 0)>>} : StartRun(args)

\* the same packet at two times and without time stamp
RecsAdjDup ==
    {Rec(<<7>>, 1, TRUE, NsTime(5, 0)), Rec(<<7>>, 1, TRUE, NsTime(1, 0)),
     Rec(<<7>>, 1, FALSE, NSTIME_INIT_ZERO)}

ReadAdjDup == read_count < MaxTimePackets /\ \E rec \in RecsAdjDup : ReadLoop(rec)

NextAdjDup ==
    \/ OptWOne
    \/ OptDTwo
    \/ OptSOne
    \/ OptTSome
    \/ StartAdjDup
    \/ ReadAdjDup
    \/ EndOfFile

SpecAdjDup == Init /\ [][NextAdjDup]_vars

\* C27: the duplicate detection comes before the time adjustment: the time
\* stamp is_duplicate_rel_time is handed for its decision, and the one it
\* stores in the ring, is the time stamp the packet was read with, not the
\* one -S or -t made of it.
C27_DedupUsesInputTime ==
    (dup_detect_by_time /\ last # NoLast /\ last.emit /\ last.rec.has_ts) =>
        /\ dedup_log # <<>>
        /\ dedup_log[Len(dedup_log)].ts = last.rec.ts
        /\ fd_hash[cur_dup_entry].frame_time = last.rec.ts

\* a turn of the read loop that has dealt with one more record
PacketStep == read_count' = read_count + 1

\* C28: with -S, previous_time is zero or the strict-adjusted time stamp of
\* the last packet written: a packet that is written leaves its time stamp
\* as -S made it, before the shift of -t, and a packet that is dropped as a
\* duplicate, not selected or without time stamp leaves previous_time as it
\* was.
C28_PreviousTimeOfWritten ==
    [][(PacketStep /\ do_strict_time_adjustment) =>
          IF last'.written /\ last'.rec.has_ts
          THEN previous_time' = last'.ts_strict
          ELSE previous_time' = previous_time]_vars


(***************************************************************************)
(* The bytes the two duplicate detections take the digest of: -D and -w    *)
(* with -I and with --skip-radiotap-header.                                *)
(***************************************************************************)
\* packets with a radiotap header of it_len 1, 2 and 4 (their whole length),
\* and one that differs from the first in its first byte only
RecsRadiotap ==
    {Rec(<<0, 0, 1, 0>>, 4, TRUE, NsTime(1, 0)), Rec(<<0, 0, 2, 0>>, 4, TRUE, NsTime(1, 0)),
     Rec(<<0, 0, 4, 0>>, 4, TRUE, NsTime(1, 0)), Rec(<<9, 0, 1, 0>>, 4, TRUE, NsTime(1, 0))}

ReadRadiotap == read_count < MaxConfigPackets /\ \E rec \in RecsRadiotap : ReadLoop(rec)

NextRadiotap ==
    \/ OptDTwo
    \/ OptWOne
    \/ OptIAny
    \/ OptSkipRadiotap
    \/ StartNoSelection
    \/ ReadRadiotap
    \/ EndOfFile

SpecRadiotap == Init /\ [][NextRadiotap]_vars

\* what is_duplicate stores for the packet the last pass dealt with
ContentEntry ==
    LET d == is_duplicate(fd_hash, cur_dup_entry, dup_window, ignored_bytes,
                          MemOf(last.after.buf, 1), 0, last.after.caplen, 1)
    IN  d.fd_hash[d.cur]

\* C30: with the same number of ignored bytes, or with
\* --skip-radiotap-header, the time-window detection stores for a packet
\* the digest and the captured length the content-window detection stores
\* for the same bytes.
C30_SameFingerprintBothVariants ==
    (dup_detect_by_time /\ last # NoLast /\ last.emit /\ last.rec.has_ts) =>
        /\ fd_hash[cur_dup_entry].digest = ContentEntry.digest
        /\ fd_hash[cur_dup_entry].len = ContentEntry.len


(***************************************************************************)
(* Where the digest starts: -D and -w with -I and with                     *)
(* --skip-radiotap-header, on packets of 0 to 4 bytes.                     *)
(***************************************************************************)
\* an empty packet, packets of one and two bytes, and packets with a
\* radiotap header of it_len 1, 2 and 4 (their whole length)
RecsOffset ==
    {Rec(<<>>, 0, TRUE, NsTime(1, 0)), Rec(<<5>>, 1, TRUE, NsTime(1, 0)),
     Rec(<<5, 6>>, 2, TRUE, NsTime(1, 0)),
     Rec(<<0, 0, 1, 0>>, 4, TRUE, NsTime(1, 0)), Rec(<<0, 0, 2, 0>>, 4, TRUE, NsTime(1, 0)),
     Rec(<<0, 0, 4, 0>>, 4, TRUE, NsTime(1, 0))}

ReadOffset == read_count < MaxConfigPackets /\ \E rec \in RecsOffset : ReadLoop(rec)

NextOffset ==
    \/ OptDTwo
    \/ OptWOne
    \/ OptIAny
    \/ OptSkipRadiotap
    \/ StartNoSelection
    \/ ReadOffset
    \/ EndOfFile

SpecOffset == Init /\ [][NextOffset]_vars

\* the last pass handed its packet to one of the two deduplicators
DedupRan ==
    /\ last # NoLast
    /\ last.emit
    /\ dup_detect \/ (dup_detect_by_time /\ last.rec.has_ts)

\* the bytes the digest of the last packet was taken of
DigestBytes == fd_hash[cur_dup_entry].digest[2]

\* the offset new_fd was set to: new_len = len - offset bytes were hashed
DigestOffset == fd_hash[cur_dup_entry].len - Len(DigestBytes)

\* it_len of a packet that holds the whole field
ItLen(buf) == (buf[3] % 256) + 256 * (buf[4] % 256)

\* the offset is 0 where lines 588-590 and 595-597 reset it, and the digest
\* is taken of the bytes of the packet from the offset on
OffsetResetAndInside ==
    /\ fd_hash[cur_dup_entry].len = last.after.caplen
    /\ DigestOffset >= 0
    /\ DigestBytes = SubSeq(last.after.buf, DigestOffset + 1, last.after.caplen)
    /\ (~(dup_detect /\ skip_radiotap) /\ last.after.caplen <= ignored_bytes)
           => DigestOffset = 0
    /\ (~(dup_detect /\ skip_radiotap) /\ last.after.caplen > ignored_bytes)
           => DigestOffset = ignored_bytes
    /\ (dup_detect /\ skip_radiotap /\ last.after.caplen >= 4) =>
           DigestOffset = IF ItLen(last.after.buf) >= last.after.caplen
                          THEN 0 ELSE ItLen(last.after.buf)

\* C31 as claimed: for every packet handed to a deduplicator the offset of
\* the digest is strictly below the captured length, it is 0 whenever the
\* ignored bytes or the radiotap header length are not below the captured
\* length, and the digest covers bytes of the packet only.
C31_OffsetBelowCaplen ==
    DedupRan => (DigestOffset < last.after.caplen /\ OffsetResetAndInside)

\* C31 as amended: the same, the offset being strictly below the captured
\* length for every packet that has bytes, and 0 for an empty packet.
C31_OffsetInsidePacket ==
    DedupRan =>
        /\ last.after.caplen > 0 => DigestOffset < last.after.caplen
        /\ last.after.caplen = 0 => DigestOffset = 0
        /\ OffsetResetAndInside

\* -I 2 with -D on a packet of two bytes: the offset is reset and the digest
\* covers both bytes
C31_Witness ==
    /\ DedupRan
    /\ dup_detect
    /\ ignored_bytes = 2
    /\ last.after.caplen = 2
    /\ DigestOffset = 0
    /\ DigestBytes = <<5, 6>>


\* C32: with -S d, d strictly positive, the time stamps of the packets
\* written are strictly increasing: each written packet that has a time
\* stamp is written with one strictly later than that of the written packet
\* with a time stamp before it, also where two packets read carry the same
\* time stamp.
C32_StrictlyIncreasing ==
    (do_strict_time_adjustment /\ strict_time_adj.is_negative = 0
        /\ strict_time_adj.tv # NsTime(0, 0))
    =>
    \A k \in 1..(Len(Stamped(outfile)) - 1) :
        ~TimeLeq(Stamped(outfile)[k + 1].ts, Stamped(outfile)[k].ts)


\* the k-th byte the last pass chose got the format string, and no byte
\* chosen after it is one of the two bytes at its index and the next
FmtStands(k) ==
    /\ last.mutations[k].applied = <<"fmt">>
    /\ last.mutations[k].i + 1 < last.after.caplen
    /\ \A j \in (k + 1)..Len(last.mutations) :
           last.mutations[j].i > last.mutations[k].i + 1

\* C33: where the format string is the outcome for the byte at index i, the
\* bytes at i and i + 1 are written as '%' (37) and 's' (115).
C33_FmtWritesPercentS ==
    LastWritten =>
        \A k \in 1..Len(last.mutations) :
            FmtStands(k) =>
                /\ last.after.buf[last.mutations[k].i + 1] = 37
                /\ last.after.buf[last.mutations[k].i + 2] = 115


(***************************************************************************)
(* The values of the random byte and of the random character: rand()       *)
(* returns, in turn, 0, RAND_MAX and both values at every step of          *)
(* rand() / (RAND_MAX / n + 1), first for n = 255, then for n = ALNUM_LEN. *)
(***************************************************************************)
\* 0, then k * d - 1 and k * d for every k with k * d <= RAND_MAX, then
\* RAND_MAX, d being RAND_MAX / n + 1
StepEdges(n) ==
    LET d == RAND_MAX \div n + 1
        kmax == RAND_MAX \div d
    IN  [j \in 1..(2 * kmax + 2) |->
            IF j = 1 THEN 0
            ELSE IF j = 2 * kmax + 2 THEN RAND_MAX
            ELSE IF j % 2 = 0 THEN (j \div 2) * d - 1
            ELSE (j \div 2) * d]

ByteEdges == StepEdges(255)

AlnumEdges == StepEdges(ALNUM_LEN)

SweepStream == ByteEdges \o AlnumEdges

\* the loop of line 1811 at the only byte of a packet of one byte, the
\* selector having been reduced to below the weight of the outcome at hand
SweepAt ==
    [mem |-> MemOf(<<0>>, 0), start |-> 0, caplen |-> 1, i |-> 0,
     stream |-> rand_state.stream, used |-> rand_state.consumed,
     err_type |-> 0, kinds |-> <<>>, log |-> <<>>]

\* the values produced so far are collected in last
Sweeping == "bytes" \in DOMAIN last

SrandSweep ==
    /\ pc = "options"
    /\ ~rand_state.seeded
    /\ \E sd \in {1, 2} : rand_state' = Gen(sd, SweepStream)
    /\ last' = [recno |-> 0, bytes |-> {}, alnums |-> {}]
    /\ UNCHANGED <<optvars, runvars, infile, outfile, dedup_log, moreopts,
                   timerun, twin, splitrun, cmdline, iorun>>

\* lines 1822-1827 with the next value of rand()
RandByte ==
    /\ Sweeping
    /\ rand_state.consumed < Len(ByteEdges)
    /\ LET m == ErrByte(SweepAt)
       IN  /\ rand_state' = [rand_state EXCEPT !.consumed = m.used]
           /\ last' = [last EXCEPT !.bytes = @ \cup {m.mem[0]}]
    /\ UNCHANGED <<optvars, runvars, infile, outfile, dedup_log, moreopts,
                   timerun, twin, splitrun, cmdline, iorun>>

\* lines 1829-1834 with the next value of rand()
RandAlnum ==
    /\ Sweeping
    /\ Len(ByteEdges) <= rand_state.consumed
    /\ rand_state.consumed < Len(SweepStream)
    /\ LET m == ErrAlnum(SweepAt)
       IN  /\ rand_state' = [rand_state EXCEPT !.consumed = m.used]
           /\ last' = [last EXCEPT !.alnums = @ \cup {m.mem[0]}]
    /\ UNCHANGED <<optvars, runvars, infile, outfile, dedup_log, moreopts,
                   timerun, twin, splitrun, cmdline, iorun>>

NextRand == SrandSweep \/ RandByte \/ RandAlnum

SpecRand == Init /\ [][NextRand]_vars

\* 'A'..'Z', 'a'..'z', '0'..'9'
AlnumCodes == (65..90) \cup (97..122) \cup (48..57)

\* C34: over all values of rand() in [0, RAND_MAX], the random byte takes
\* every value of 0..255, and the random character takes every one of the
\* 62 characters A-Z, a-z, 0-9 and nothing else.
C34_FullByteAndAlnumRange ==
    Sweeping =>
        /\ last.bytes \subseteq 0..255
        /\ last.alnums \subseteq AlnumCodes
        /\ rand_state.consumed >= Len(ByteEdges) => last.bytes = 0..255
        /\ rand_state.consumed = Len(SweepStream) => last.alnums = AlnumCodes


(***************************************************************************)
(* Where the mutation starts in a record of a DCT2000 file: -o, and        *)
(* records whose five text fields have 0 to MaxDctField characters.        *)
(***************************************************************************)
\* a text field of l characters and its terminating NUL
DctString(l) == [i \in 1..l |-> 65] \o <<0>>

\* context name, context port number, timestamp, protocol name, variant
\* number, outhdr, direction, encapsulation, and two bytes of protocol data
DctPacket(fields, port) ==
    DctString(fields[1]) \o <<port>> \o DctString(fields[2]) \o DctString(fields[3])
        \o DctString(fields[4]) \o DctString(fields[5]) \o <<1, 2>> \o <<8, 9>>

\* the length of what comes before the protocol data: the characters of the
\* five fields, their five NULs, the port, the direction and the
\* encapsulation
DctPrefix(fields) ==
    fields[1] + fields[2] + fields[3] + fields[4] + fields[5] + 8

\* lines 1797-1811 for a record of a DCT2000 file
DctStart ==
    /\ pc = "options"
    /\ \E fields \in [1..5 -> 0..MaxDctField], port \in {0, 1} :
           LET buf == DctPacket(fields, port)
           IN  /\ infile' = <<Rec(buf, Len(buf), TRUE, NsTime(1, 0))>>
               /\ last' = [recno |-> 0, fields |-> fields,
                           real_data_start |-> RealDataStart(TRUE, buf, change_offset)]
    /\ pc' = "reading"
    /\ UNCHANGED <<optvars, ret, read_count, count, written_count, duplicate_count,
                   fd_hash, cur_dup_entry, outfile, dedup_log, moreopts, morerun>>

NextDct == OptOAny \/ DctStart

SpecDct == Init /\ [][NextDct]_vars

\* the start of the mutation of a DCT2000 record was computed
DctStarted == "real_data_start" \in DOMAIN last

\* C35 as claimed: the index of the first byte that may be changed is the
\* larger of the length of the protected prefix and the change offset,
\* whatever the two are.
C35_StartIsLarger ==
    DctStarted =>
        last.real_data_start =
            IF DctPrefix(last.fields) > change_offset
            THEN DctPrefix(last.fields) ELSE change_offset

\* C35 as amended: the index of the first byte that may be changed is the
\* sum of the length of the protected prefix and the change offset, which is
\* the larger of the two where one of them is 0.
C35_StartIsSum ==
    DctStarted =>
        /\ last.real_data_start = DctPrefix(last.fields) + change_offset
        /\ change_offset = 0 => last.real_data_start = DctPrefix(last.fields)

\* -o 2 on a DCT2000 record with a prefix of 10 bytes: the mutation starts
\* at index 12
C35_Witness ==
    /\ DctStarted
    /\ change_offset = 2
    /\ DctPrefix(last.fields) = 10
    /\ last.real_data_start = 12


(***************************************************************************)
(* Removing the VLAN tag: --novlan and -s on packets with the Linux cooked *)
(* and the Ethernet encapsulation.                                         *)
(***************************************************************************)
\* n bytes that differ from each other, with or without 0x81 0x00 at
\* offset 14
TagBytes(n, tagged) ==
    [i \in 1..n |->
        IF tagged /\ i = LINUX_SLL_OFFSETP + 1 THEN 129
        ELSE IF tagged /\ i = LINUX_SLL_OFFSETP + 2 THEN 0
        ELSE i]

RecEncap(bytes, pkt_encap) ==
    [Rec(bytes, Len(bytes), TRUE, NsTime(1, 0)) EXCEPT !.pkt_encap = pkt_encap]

\* cooked packets of 20 and of 18 bytes with the tag and of 20 bytes
\* without, a cooked packet of 3 bytes, and an Ethernet packet of 20 bytes
\* with 0x81 0x00 at offset 14
RecsVlan ==
    {RecEncap(TagBytes(20, TRUE), WTAP_ENCAP_SLL),
     RecEncap(TagBytes(18, TRUE), WTAP_ENCAP_SLL),
     RecEncap(TagBytes(20, FALSE), WTAP_ENCAP_SLL),
     RecEncap(TagBytes(3, FALSE), WTAP_ENCAP_SLL),
     RecEncap(TagBytes(20, TRUE), WTAP_ENCAP_ETHERNET)}

\* -s 2, -s 14, -s 16, -s 17, -s 19
SnaplenArgs == {2, 14, 16, 17, 19}

OptSnaplenAny == pc = "options" /\ \E n \in SnaplenArgs : OptSnaplen(n)

ReadVlan == read_count < MaxConfigPackets /\ \E rec \in RecsVlan : ReadLoop(rec)

NextVlan ==
    \/ OptNoVlan
    \/ OptSnaplenAny
    \/ StartNoSelection
    \/ ReadVlan
    \/ EndOfFile

SpecVlan == Init /\ [][NextVlan]_vars

\* remove_vlan_info was called in the last pass
VlanRan == last # NoLast /\ last.vlan.ran

\* the packet handed to remove_vlan_info is a cooked one whose captured
\* bytes hold 0x8100 at offset 14
Tagged ==
    /\ last.rec.pkt_encap = WTAP_ENCAP_SLL
    /\ last.vlan.caplen >= LINUX_SLL_OFFSETP + 2
    /\ last.vlan.buf[LINUX_SLL_OFFSETP + 1] = 129
    /\ last.vlan.buf[LINUX_SLL_OFFSETP + 2] = 0

\* buf without the four bytes at [14, 18)
Untagged(buf) ==
    SubSeq(buf, 1, LINUX_SLL_OFFSETP)
        \o SubSeq(buf, LINUX_SLL_OFFSETP + VLAN_SIZE + 1, Len(buf))

\* C36: for a cooked packet with 0x8100 at offset 14 the four bytes at
\* [14, 18) are removed, the bytes after them move down by four and the
\* captured length goes down by exactly four; a packet of any other
\* encapsulation, or without 0x8100 there, keeps its bytes and its captured
\* length.
C36_VlanTagRemoved ==
    VlanRan =>
        IF Tagged
        THEN /\ last.after.caplen = last.vlan.caplen - VLAN_SIZE
             /\ last.after.buf = Untagged(last.vlan.buf)
        ELSE /\ last.after.caplen = last.vlan.caplen
             /\ last.after.buf = last.vlan.buf

\* C37: for a cooked packet with a captured length below 18, removing the
\* tag reads no byte at or beyond the captured length, moves no negative
\* number of bytes and leaves a captured length that did not wrap around.
C37_ShortPacketSafe ==
    (VlanRan /\ last.rec.pkt_encap = WTAP_ENCAP_SLL
        /\ last.vlan.caplen < LINUX_SLL_OFFSETP + VLAN_SIZE)
    =>
        /\ \A i \in last.vlan.reads : i < last.vlan.caplen
        /\ last.vlan.rest_len >= 0
        /\ last.after.caplen >= 0
        /\ last.after.caplen <= last.vlan.caplen


\* the n bytes from address a on are bytes of a packet of caplen bytes at
\* address 0
InsidePacket(a, n, caplen) == n >= 0 /\ 0 <= a /\ a + n <= caplen

\* C38: whatever the chop and the packet, handle_chopping reads and writes
\* bytes of the packet only: every call of memmove has a count that is not
\* negative and a source and a destination that lie within the captured
\* bytes the packet had before chopping.
C38_ChopMovesInsidePacket ==
    LastChopped =>
        \A mv \in ChopMoves(last.norm, last.before.caplen, 0) :
            /\ InsidePacket(mv.src, mv.n, last.before.caplen)
            /\ InsidePacket(mv.dst, mv.n, last.before.caplen)


\* C39: the mutation changes bytes at indices from the change offset up to,
\* but not including, the captured length only, whatever the captured
\* length, the outcome and the values of rand(); and a packet whose captured
\* length is below the change offset is written as it was read.
C39_MutationInsidePacket ==
    LastWritten =>
        /\ \A i \in last.changed : change_offset <= i /\ i < last.after.caplen
        /\ change_offset > last.after.caplen =>
               (last.mutations = <<>> /\ last.after.buf = last.rec.buf)


\* what a loop that goes through all of recs writes: the first n records of
\* recs that pass the test of line 1561, in order
RECURSIVE WholeInput(_, _)
WholeInput(recs, n) ==
    IF n = 0 THEN <<>>
    ELSE IF Emit(n, TsOkay(recs[n])) THEN Append(WholeInput(recs, n - 1), recs[n])
    ELSE WholeInput(recs, n - 1)

\* C40: leaving the read loop when as many records were read as the highest
\* packet number selected loses no packet in keep mode: with single
\* numbers, ranges, ranges without upper end and reversed ranges, the
\* records written are those that going through the whole input writes, and
\* no record after the one the loop stopped at would be written; in delete
\* mode every record read is processed.
C40_EarlyStopLosesNothing ==
    (pc = "done") =>
        /\ outfile = WholeInput(infile, Len(infile))
        /\ (keep_em /\ Len(infile) > read_count) =>
               \A n \in (Len(infile) + 1)..(MaxSelNum + MaxSelPackets + 1) :
                   ~Emit(n, TRUE)
        /\ ~keep_em => read_count = Len(infile)

\* keep mode with "2" and the reversed range "2-1": the loop stopped when
\* the third record was read and the second record was written
C40_Witness ==
    /\ pc = "done" /\ keep_em
    /\ selectfrm = <<[inclusive |-> FALSE, first |-> 2, second |-> 0],
                     [inclusive |-> TRUE, first |-> 2, second |-> 1]>>
    /\ Len(infile) = 3 /\ read_count = 2
    /\ outfile = <<infile[2]>>
====
